---- MODULE Spec2Model ----
(***************************************************************************)
(* Model of the request-dispatch core of ai_proxy:                         *)
(*   - the Codex (Responses API) streaming adapter,                        *)
(*       src/src/codex/format.js  streamCodexResponseToAnthropic           *)
(*   - the GitHub Copilot (Chat Completions) streaming adapter,            *)
(*       src/src/github/format.js streamOpenAIResponseToAnthropic          *)
(*   - the account pool and the retry loops built on it,                   *)
(*       src/src/github/account-manager.js, src/src/cursor/account-manager.js, *)
(*       src/src/codex/handlers.js (src/unnamed/part_001),                 *)
(*       src/src/github/handlers.js, src/src/cursor/index.js               *)
(* One module, three specifications (SpecCodex, SpecGithub, SpecRetry)     *)
(* over one set of variables; each specification leaves the variables of   *)
(* the other components at their initial value.                            *)
(***************************************************************************)
EXTENDS Integers, Sequences, FiniteSets, TLC

(***************************************************************************)
(* Bounds                                                                  *)
(***************************************************************************)
\* number of backend events one adapter run consumes
MaxEvents == 3
\* number of chunks one run of the GitHub Copilot adapter consumes
MaxChunks == 3
\* number of function_call items the Codex backend may announce
MaxItems == 2
\* number of accounts a pool may hold
MaxAccounts == 3
\* number of concurrent requests sharing one pool
MaxRequests == 1
\* pool operations and environment events in one run: account selections,
\* clock jumps, account additions and 429 replies that carry a reset hint
MaxOps == 3
\* concurrent callers of getCopilotToken
MaxCallers == 2
\* manager calls (selectAccount, markRateLimited, markInvalid,
\* getCopilotToken) and clock jumps in one run
MaxCalls == 3

(***************************************************************************)
(* Values shared by the adapters                                           *)
(***************************************************************************)
\* a missing / falsy identifier (undefined, null or '')
NoId == 0
\* textBlockIndex === null
Null == -1

VARIABLES
    \* ---- streaming adapters (locals of the generator functions) ----
    phase,              \* "idle" | "reading" | "done" | "thrown"
    started,            \* let started
    textBlockIndex,     \* let textBlockIndex (Null or a block index)
    nextIndex,          \* let nextIndex
    out,                \* the events yielded so far, in order
    consumed,           \* number of backend events read so far
    \* Codex only
    currentToolItemId,  \* let currentToolItemId (NoId when null)
    toolBlockMap,       \* const toolBlockMap, in key insertion order
    webSearchItemIds,   \* const webSearchItemIds
    hasToolUse,         \* let hasToolUse
    inputTokens,        \* let inputTokens
    outputTokens,       \* let outputTokens
    randCount,          \* number of crypto.randomBytes ids drawn so far
    \* Codex backend (the environment): what it has sent so far
    itemAdded,          \* itemAdded[k]: output_item.added was sent for item k
    argsSent,           \* argsSent[k]: number of argument tokens sent for item k
    blockOwner,         \* blockOwner[i]: the item block i was started for (0: none)
    orderly,            \* no arguments delta was sent before its item was announced
    textSent,           \* number of non-empty text deltas the backend has sent
    \* GitHub Copilot only
    toolBlocks,         \* const toolBlocks (Map), in key insertion order
    stopReason,         \* let stopReason
    \* ---- account pool and retry loops ----
    backend,            \* which pool and retry loop: "codex" | "github" | "cursor"
    accounts,           \* #accounts
    activeIndex,        \* #activeIndex (0-based)
    now,                \* Date.now(), in ms
    ticks,              \* number of Tick steps taken
    adds,               \* number of addAccount calls made
    hinted,             \* number of 429 responses that carried a reset hint
    req,                \* req[r]: the locals of request r's retry loop
    authFailed,         \* accounts answered 401/403 and not re-added since
    \* ---- the GitHub account manager under concurrent callers ----
    copilotToken,       \* copilotToken[a]: account.copilotToken (0: null)
    copilotTokenExpiresAt, \* copilotTokenExpiresAt[a], in s as the endpoint gives it (0: null)
    callers,            \* callers[c]: one invocation of getCopilotToken
    issued,             \* number of tokens the token endpoint has issued
    saveMkdir,          \* saveToDisk() calls of selectAccount / mark* waiting for mkdir
    saveWrite,          \* saveToDisk() calls of selectAccount / mark* waiting for writeFile
    granted,            \* selectAccount() calls that returned an account since the clock last moved
    lastIdx,            \* the account the last selectAccount() returned (0: null)
    calls,              \* manager calls and clock jumps so far
    \* ---- the Codex request converter ----
    schema,             \* the schema sanitizeSchema is given
    sanitized,          \* what sanitizeSchema returned, call after call
    request,            \* the Anthropic request convertAnthropicToCodexRequest is given
    payload,            \* the Codex payload it returned (<<>>: not called yet)
    \* ---- the Codex accounts CLI ----
    oauth,              \* the locals of addAccount and of its callback server
    \* ---- the account file of a pool ----
    saves,              \* the saveToDisk() calls in flight
    file,               \* what the account file holds
    \* ---- collectCodexStreamToAnthropicResponse ----
    collected           \* toolCalls and toolCallOrder of the non-streaming
                        \* aggregation fed the lines the streaming adapter reads

adapterVars == <<phase, started, textBlockIndex, nextIndex, out, consumed>>
codexVars == <<currentToolItemId, toolBlockMap, webSearchItemIds, hasToolUse,
               inputTokens, outputTokens, itemAdded, argsSent, blockOwner, orderly, textSent,
               collected>>
githubVars == <<toolBlocks, stopReason>>
retryVars == <<backend, accounts, activeIndex, now, ticks, adds, hinted, req, authFailed>>
managerVars == <<copilotToken, copilotTokenExpiresAt, callers, issued, saveMkdir, saveWrite,
                 granted, lastIdx, calls>>
formatVars == <<schema, sanitized, request, payload>>
storeVars == <<saves, file>>
vars == <<adapterVars, randCount, codexVars, githubVars, retryVars, managerVars, formatVars, oauth, storeVars>>
\* what the Codex adapter never touches
notCodex == <<githubVars, retryVars, managerVars, formatVars, oauth, storeVars>>
\* what the GitHub adapter never touches
notGithub == <<codexVars, retryVars, managerVars, formatVars, oauth, storeVars>>
\* what the retry loops never touch
notRetry == <<adapterVars, randCount, codexVars, githubVars, managerVars, formatVars, oauth, storeVars>>
\* what the manager's callers never touch
notManager == <<adapterVars, randCount, codexVars, githubVars,
                backend, ticks, adds, hinted, req, authFailed, formatVars, oauth, storeVars>>

(***************************************************************************)
(* Canonical events                                                        *)
(***************************************************************************)
Ev(type, index, btype, id, name, data, stop, usage) ==
    [type |-> type, index |-> index, btype |-> btype, id |-> id,
     name |-> name, data |-> data, stop |-> stop, usage |-> usage]

MessageStart(inTok) == Ev("message_start", Null, "", NoId, "", <<>>, "", inTok)
TextBlockStart(i) == Ev("content_block_start", i, "text", NoId, "", <<>>, "", 0)
ToolBlockStart(i, id, name) == Ev("content_block_start", i, "tool_use", id, name, <<>>, "", 0)
TextDelta(i, text) == Ev("content_block_delta", i, "text_delta", NoId, "", text, "", 0)
InputJsonDelta(i, json) == Ev("content_block_delta", i, "input_json_delta", NoId, "", json, "", 0)
BlockStop(i) == Ev("content_block_stop", i, "", NoId, "", <<>>, "", 0)
MessageDelta(stop, outTok) == Ev("message_delta", Null, "", NoId, "", <<>>, stop, outTok)
MessageStop == Ev("message_stop", Null, "", NoId, "", <<>>, "", 0)

(***************************************************************************)
(* The Codex backend: its function_call items                              *)
(***************************************************************************)
Items == 1..MaxItems
\* item.id and item.call_id of item k as the backend knows them
ItemIdOf(k) == k
CallIdOf(k) == 10 + k
NameOf(k) == IF k = 1 THEN "Bash" ELSE "Read"
\* the arguments of item k, as JSON tokens: the object {} for odd k, {"a":{}} for even k
ItemArgs(k) == IF k % 2 = 1 THEN <<"{", "}">> ELSE <<"{", "{", "}", "}">>
\* `toolu_${crypto.randomBytes(12).toString('hex')}`: the n-th random id
RandomToolId(n) == 100 + n

(***************************************************************************)
(* toolBlockMap: a JS object used as a map, kept as the sequence of its    *)
(* entries [itemId, callId, blockIndex] in key insertion order             *)
(***************************************************************************)
HasKey(map, id) == \E i \in DOMAIN map : map[i].itemId = id
MapGet(map, id) == map[CHOOSE i \in DOMAIN map : map[i].itemId = id]
MapSet(map, id, e) ==
    IF HasKey(map, id)
    THEN [i \in DOMAIN map |-> IF map[i].itemId = id THEN e ELSE map[i]]
    ELSE Append(map, e)
\* Object.keys(map).pop()
LastKey(map) == IF map = <<>> THEN NoId ELSE map[Len(map)].itemId

(***************************************************************************)
(* streamCodexResponseToAnthropic                                          *)
(***************************************************************************)
\* mutant: message_start is yielded on every call, whether started or not
EnsureStartedEveryTime(isStarted, inTok) == <<MessageStart(inTok)>>
\* ensureStarted(): the events it yields
EnsureStarted(isStarted, inTok) == IF isStarted THEN <<>> ELSE <<MessageStart(inTok)>>

\* mutant: the stop reason ignores hasToolUse
CodexStopReasonAlwaysEndTurn(toolUse) == "end_turn"
\* hasToolUse ? 'tool_use' : 'end_turn'
CodexStopReason(toolUse) == IF toolUse THEN "tool_use" ELSE "end_turn"

\* the block index an arguments delta carrying item_id is emitted under, or Null
ArgsDeltaTarget(item_id, map, current) ==
    LET known == IF item_id # NoId
                 THEN HasKey(map, item_id)
                 ELSE current # NoId /\ HasKey(map, current)
        entryKey == IF item_id # NoId THEN item_id ELSE current
        lastItemId == IF current # NoId THEN current ELSE LastKey(map)
    IN  IF known THEN MapGet(map, entryKey).blockIndex
        ELSE IF lastItemId # NoId /\ HasKey(map, lastItemId)
             THEN MapGet(map, lastItemId).blockIndex
             ELSE Null

\* the blocks closed when the backend stream ends after message_start
CodexCloseOpenBlocks(textIdx, map, current) ==
    (IF textIdx # Null THEN <<BlockStop(textIdx)>> ELSE <<>>)
    \o (IF current # NoId /\ HasKey(map, current)
        THEN <<BlockStop(MapGet(map, current).blockIndex)>> ELSE <<>>)

\* no request, empty pool: the state of the pool variables while an adapter runs alone
IdleRequest ==
    [pc |-> "idle", attempt |-> 0, maxAttempts |-> 0, account |-> 0, wakeAt |-> 0,
     error |-> "", resetMins |-> 0,
     calls |-> 0, selects |-> 0, startedAt |-> 0, startCount |-> 0, startAvail |-> {},
     answered429 |-> {}, answered200 |-> {}, otherFailure |-> FALSE,
     hint |-> <<>>, retryMs |-> 0,
     answered401 |-> {}, threw |-> FALSE, tokenError |-> "", embedded |-> "",
     messageStarts |-> 0, outcome |-> ""]
\* the requests of the run
Requests == DOMAIN req
\* no getCopilotToken call in progress
IdleCaller == [pc |-> "idle", account |-> 0, result |-> 0, error |-> ""]
Callers == 1..MaxCallers
ManagerIdle ==
    /\ copilotToken = <<>>
    /\ copilotTokenExpiresAt = <<>>
    /\ callers = [c \in Callers |-> IdleCaller]
    /\ issued = 0
    /\ saveMkdir = 0
    /\ saveWrite = 0
    /\ granted = 0
    /\ lastIdx = 0
    /\ calls = 0
PoolIdle ==
    /\ ManagerIdle
    /\ backend = "codex"
    /\ accounts = <<>>
    /\ activeIndex = 0
    /\ now = 0
    /\ ticks = 0
    /\ adds = 0
    /\ hinted = 0
    /\ req = [r \in 1..MaxRequests |-> IdleRequest]
    /\ authFailed = {}

\* the callback parameters of a request that carried none
NoParams == [code |-> 0, state |-> 0, error |-> ""]
\* addAccount has not been called
IdleFlow ==
    [pc |-> "idle", state |-> 0, hits |-> 0, params |-> NoParams, exchanges |-> 0, error |-> ""]
\* the account file as it is before the first save: there is none
MissingFile == [kind |-> "missing", accounts |-> <<>>, activeIndex |-> 0, reads |-> 0]
\* no save is under way
StoreIdle ==
    /\ saves = <<>>
    /\ file = MissingFile
CliIdle == oauth = IdleFlow /\ StoreIdle

\* no conversion is under way
FormatIdle ==
    /\ schema = <<>>
    /\ sanitized = <<>>
    /\ request = <<>>
    /\ payload = <<>>

\* the locals of an adapter when the generator is entered
AdapterLocals ==
    /\ phase = "reading"
    /\ started = FALSE
    /\ textBlockIndex = Null
    /\ nextIndex = 0
    /\ out = <<>>
    /\ consumed = 0
    /\ randCount = 0
    /\ currentToolItemId = NoId
    /\ toolBlockMap = <<>>
    /\ webSearchItemIds = {}
    /\ hasToolUse = FALSE
    /\ inputTokens = 0
    /\ outputTokens = 0
    /\ itemAdded = [k \in Items |-> FALSE]
    /\ argsSent = [k \in Items |-> 0]
    /\ blockOwner = <<>>
    /\ orderly = TRUE
    /\ textSent = 0
    /\ collected = [toolCalls |-> <<>>, toolCallOrder |-> <<>>]
    /\ toolBlocks = <<>>
    /\ stopReason = "end_turn"

AdapterInit == AdapterLocals /\ FormatIdle /\ CliIdle

CodexInit == AdapterInit /\ PoolIdle

CodexReading == phase = "reading" /\ consumed < MaxEvents

\* eventType === 'response.output_text.delta'
OnOutputTextDelta(delta) ==
    /\ CodexReading
    /\ consumed' = consumed + 1
    /\ IF delta = <<>>
       THEN UNCHANGED <<started, textBlockIndex, nextIndex, out, blockOwner>>
       ELSE LET idx == IF textBlockIndex = Null THEN nextIndex ELSE textBlockIndex
            IN  /\ started' = TRUE
                /\ textBlockIndex' = idx
                /\ nextIndex' = IF textBlockIndex = Null THEN nextIndex + 1 ELSE nextIndex
                /\ blockOwner' = IF textBlockIndex = Null THEN Append(blockOwner, 0) ELSE blockOwner
                /\ out' = out \o EnsureStarted(started, inputTokens)
                              \o (IF textBlockIndex = Null THEN <<TextBlockStart(idx)>> ELSE <<>>)
                              \o <<TextDelta(idx, delta)>>
    /\ textSent' = IF delta = <<>> THEN textSent ELSE textSent + 1
    /\ UNCHANGED <<phase, currentToolItemId, toolBlockMap, webSearchItemIds, hasToolUse,
                   inputTokens, outputTokens, randCount, itemAdded, argsSent, orderly,
                   collected, notCodex>>

\* mutant: the tool block takes nextIndex without advancing it
OnFunctionCallAddedKeepsIndex(item, k) ==
    LET callId == IF item.call_id # NoId THEN item.call_id ELSE RandomToolId(randCount + 1)
        itemId == IF item.id # NoId THEN item.id ELSE callId
        blockIndex == nextIndex
    IN  /\ started' = TRUE
        /\ textBlockIndex' = Null
        /\ nextIndex' = nextIndex
        /\ randCount' = IF item.call_id # NoId THEN randCount ELSE randCount + 1
        /\ toolBlockMap' = MapSet(toolBlockMap, itemId,
                                  [itemId |-> itemId, callId |-> callId, blockIndex |-> blockIndex])
        /\ currentToolItemId' = itemId
        /\ hasToolUse' = TRUE
        /\ blockOwner' = Append(blockOwner, k)
        /\ out' = out \o EnsureStarted(started, inputTokens)
                      \o (IF textBlockIndex # Null THEN <<BlockStop(textBlockIndex)>> ELSE <<>>)
                      \o <<ToolBlockStart(blockIndex, callId, item.name)>>
        /\ UNCHANGED webSearchItemIds

\* eventType === 'response.output_item.added' with item.type === 'function_call';
\* k is the backend item the event announces
OnFunctionCallAdded(item, k) ==
    LET callId == IF item.call_id # NoId THEN item.call_id ELSE RandomToolId(randCount + 1)
        itemId == IF item.id # NoId THEN item.id ELSE callId
        blockIndex == nextIndex
    IN  /\ started' = TRUE
        /\ textBlockIndex' = Null
        /\ nextIndex' = nextIndex + 1
        /\ randCount' = IF item.call_id # NoId THEN randCount ELSE randCount + 1
        /\ toolBlockMap' = MapSet(toolBlockMap, itemId,
                                  [itemId |-> itemId, callId |-> callId, blockIndex |-> blockIndex])
        /\ currentToolItemId' = itemId
        /\ hasToolUse' = TRUE
        /\ blockOwner' = Append(blockOwner, k)
        /\ out' = out \o EnsureStarted(started, inputTokens)
                      \o (IF textBlockIndex # Null THEN <<BlockStop(textBlockIndex)>> ELSE <<>>)
                      \o <<ToolBlockStart(blockIndex, callId, item.name)>>
        /\ UNCHANGED webSearchItemIds

\* the aggregation's branch for 'response.output_item.added' with a
\* function_call item; the random id drawn for a missing call_id is taken
\* to be the one the streaming adapter draws
CollectItemAdded(c, item, rnd) ==
    LET callId == IF item.call_id # NoId THEN item.call_id ELSE RandomToolId(rnd)
        itemId == IF item.id # NoId THEN item.id ELSE callId
    IN  [toolCalls |-> MapSet(c.toolCalls, itemId,
                              [itemId |-> itemId, callId |-> callId, name |-> item.name,
                               argumentParts |-> <<>>]),
         toolCallOrder |-> Append(c.toolCallOrder, itemId)]

\* its branch for 'response.function_call_arguments.delta'
CollectArgumentsDelta(c, item_id, delta) ==
    IF item_id # NoId /\ HasKey(c.toolCalls, item_id)
    THEN [c EXCEPT !.toolCalls = MapSet(@, item_id,
                        [MapGet(@, item_id) EXCEPT !.argumentParts = @ \o delta])]
    ELSE c

\* its branch for 'response.function_call_arguments.done'
CollectArgumentsDone(c, item_id, args) ==
    IF item_id # NoId /\ HasKey(c.toolCalls, item_id)
    THEN [c EXCEPT !.toolCalls = MapSet(@, item_id,
                        [MapGet(@, item_id) EXCEPT !.argumentParts = args])]
    ELSE c

\* eventType === 'response.output_item.added'
OnOutputItemAdded ==
    /\ CodexReading
    /\ consumed' = consumed + 1
    /\ \/ \* chunk.item missing: continue
          UNCHANGED <<started, textBlockIndex, nextIndex, out, currentToolItemId, toolBlockMap,
                      webSearchItemIds, hasToolUse, randCount, itemAdded, blockOwner, collected>>
       \/ \E k \in Items, withId \in BOOLEAN, withCallId \in BOOLEAN, withName \in BOOLEAN :
            LET item == [id |-> IF withId THEN ItemIdOf(k) ELSE NoId,
                         call_id |-> IF withCallId THEN CallIdOf(k) ELSE NoId,
                         name |-> IF withName THEN NameOf(k) ELSE ""]
            IN  /\ ~itemAdded[k]
                /\ itemAdded' = [itemAdded EXCEPT ![k] = TRUE]
                /\ OnFunctionCallAdded(item, k)
                /\ collected' = CollectItemAdded(collected, item, randCount + 1)
       \/ \E wsId \in {NoId, 50} :
            /\ webSearchItemIds' = webSearchItemIds \cup {wsId}
            /\ UNCHANGED <<started, textBlockIndex, nextIndex, out, currentToolItemId, toolBlockMap,
                           hasToolUse, randCount, itemAdded, blockOwner, collected>>
    /\ UNCHANGED <<phase, inputTokens, outputTokens, argsSent, orderly, textSent, notCodex>>

\* eventType === 'response.function_call_arguments.delta'; the backend sends the
\* next n argument tokens of item k, with or without item_id
OnFunctionCallArgumentsDelta ==
    /\ CodexReading
    /\ consumed' = consumed + 1
    /\ \E k \in Items, withItemId \in BOOLEAN : \E n \in 0..Len(ItemArgs(k)) :
         LET item_id == IF withItemId THEN ItemIdOf(k) ELSE NoId
             delta == SubSeq(ItemArgs(k), argsSent[k] + 1, argsSent[k] + n)
             target == ArgsDeltaTarget(item_id, toolBlockMap, currentToolItemId)
         IN  /\ argsSent[k] + n <= Len(ItemArgs(k))
             /\ argsSent' = [argsSent EXCEPT ![k] = argsSent[k] + n]
             /\ orderly' = (orderly /\ itemAdded[k])
             /\ out' = IF delta # <<>> /\ target # Null
                       THEN Append(out, InputJsonDelta(target, delta))
                       ELSE out
             /\ collected' = CollectArgumentsDelta(collected, item_id, delta)
    /\ UNCHANGED <<phase, started, textBlockIndex, nextIndex, currentToolItemId, toolBlockMap,
                   webSearchItemIds, hasToolUse, inputTokens, outputTokens, randCount,
                   itemAdded, blockOwner, textSent, notCodex>>

\* eventType === 'response.completed'
OnCompleted ==
    /\ CodexReading
    /\ consumed' = consumed + 1
    /\ \E usage \in {[input_tokens |-> 0, output_tokens |-> 0],
                     [input_tokens |-> 3, output_tokens |-> 5]} :
         /\ inputTokens' = IF usage.input_tokens # 0 THEN usage.input_tokens ELSE inputTokens
         /\ outputTokens' = IF usage.output_tokens # 0 THEN usage.output_tokens ELSE outputTokens
    /\ UNCHANGED <<phase, started, textBlockIndex, nextIndex, out, currentToolItemId, toolBlockMap,
                   webSearchItemIds, hasToolUse, randCount, itemAdded, argsSent, blockOwner,
                   orderly, textSent, collected, notCodex>>

\* eventType === 'response.function_call_arguments.done': the streaming
\* adapter has no branch for it; the arguments are those of item k, or
\* another JSON text
OnFunctionCallArgumentsDone ==
    /\ CodexReading
    /\ consumed' = consumed + 1
    /\ \E k \in Items, withItemId \in BOOLEAN : \E args \in {ItemArgs(k), <<"{", "{", "{", "}", "}", "}">>} :
         collected' = CollectArgumentsDone(collected, IF withItemId THEN ItemIdOf(k) ELSE NoId, args)
    /\ UNCHANGED <<phase, started, textBlockIndex, nextIndex, out, currentToolItemId, toolBlockMap,
                   webSearchItemIds, hasToolUse, inputTokens, outputTokens, randCount, itemAdded,
                   argsSent, blockOwner, orderly, textSent, notCodex>>

\* 'response.output_item.done', any other event type, a line that is not
\* 'data:', '[DONE]', or a payload that does not parse
OnIgnoredLine ==
    /\ CodexReading
    /\ consumed' = consumed + 1
    /\ UNCHANGED <<phase, started, textBlockIndex, nextIndex, out, randCount, codexVars, notCodex>>

\* mutant: nothing stands in for the missing content
EmptyMessageWithoutBlock == <<MessageStart(0)>>
\* if (!started): the empty message, message_start and an empty text block
EmptyMessage == <<MessageStart(0), TextBlockStart(0), BlockStop(0)>>

\* reader.read() reports done: the code after the read loop
OnCodexStreamEnd ==
    /\ phase = "reading"
    /\ phase' = "done"
    /\ out' = out
         \o (IF ~started
             THEN EmptyMessage
             ELSE CodexCloseOpenBlocks(textBlockIndex, toolBlockMap, currentToolItemId))
         \o <<MessageDelta(CodexStopReason(hasToolUse), outputTokens), MessageStop>>
    /\ blockOwner' = IF ~started THEN <<0>> ELSE blockOwner
    /\ UNCHANGED <<started, textBlockIndex, nextIndex, consumed, currentToolItemId, toolBlockMap,
                   webSearchItemIds, hasToolUse, inputTokens, outputTokens, randCount,
                   itemAdded, argsSent, orderly, textSent, collected, notCodex>>

CodexNext ==
    \/ \E delta \in {<<>>, <<"t">>} : OnOutputTextDelta(delta)
    \/ OnOutputItemAdded
    \/ OnFunctionCallArgumentsDelta
    \/ OnFunctionCallArgumentsDone
    \/ OnCompleted
    \/ OnIgnoredLine
    \/ OnCodexStreamEnd

SpecCodex == CodexInit /\ [][CodexNext]_vars

(***************************************************************************)
(* streamOpenAIResponseToAnthropic (GitHub Copilot, Chat Completions)      *)
(* toolBlocks is a Map keyed by tool_calls index, kept as the sequence of  *)
(* its entries [key, id, name, args, index, closed] in insertion order     *)
(***************************************************************************)
TbHas(tb, key) == \E i \in DOMAIN tb : tb[i].key = key
TbGet(tb, key) == tb[CHOOSE i \in DOMAIN tb : tb[i].key = key]
TbSet(tb, key, e) ==
    IF TbHas(tb, key)
    THEN [i \in DOMAIN tb |-> IF tb[i].key = key THEN e ELSE tb[i]]
    ELSE Append(tb, e)

\* the locals of the generator, as one record
GithubLocals ==
    [started |-> started, nextIndex |-> nextIndex, textBlockIndex |-> textBlockIndex,
     toolBlocks |-> toolBlocks, out |-> out, randCount |-> randCount]

\* choice.finish_reason === 'tool_calls' ? 'tool_use' : 'end_turn'
FinishToStopReason(finish_reason) == IF finish_reason = "tool_calls" THEN "tool_use" ELSE "end_turn"

\* toolBlocks.size > 0 ? 'tool_use' : stopReason
GithubStopReason(tb, reason) == IF Len(tb) > 0 THEN "tool_use" ELSE reason

\* if (delta.content) { ... }
OnContent(st, content) ==
    LET idx == IF st.textBlockIndex = Null THEN st.nextIndex ELSE st.textBlockIndex
    IN  [st EXCEPT
            !.started = TRUE,
            !.textBlockIndex = idx,
            !.nextIndex = IF st.textBlockIndex = Null THEN st.nextIndex + 1 ELSE st.nextIndex,
            !.out = st.out \o (IF st.started THEN <<>> ELSE <<MessageStart(0)>>)
                           \o (IF st.textBlockIndex = Null THEN <<TextBlockStart(idx)>> ELSE <<>>)
                           \o <<TextDelta(idx, content)>>]

\* mutant: a tool call leaves the open text block as it is
StopTextBlockNever(st) == <<>>
\* if (textBlockIndex !== null) yield content_block_stop
StopTextBlock(st) ==
    IF st.textBlockIndex # Null THEN <<BlockStop(st.textBlockIndex)>> ELSE <<>>

\* the body of `for (const tc of deltaToolCalls)`
OnToolCall(st, tc) ==
    LET idx == IF tc.index = Null THEN 0 ELSE tc.index
        has == TbHas(st.toolBlocks, idx)
        old == TbGet(st.toolBlocks, idx)
        opens == ~has \/ old.closed
        drawsId == opens /\ tc.id = NoId /\ (~has \/ old.id = NoId)
        toolId == IF tc.id # NoId THEN tc.id
                  ELSE IF has /\ old.id # NoId THEN old.id
                  ELSE RandomToolId(st.randCount + 1)
        opened == [key |-> idx, id |-> toolId, name |-> tc.name, args |-> <<>>,
                   index |-> st.nextIndex, closed |-> FALSE]
        state0 == IF opens THEN opened ELSE old
        state1 == [state0 EXCEPT !.name = IF tc.name # "" THEN tc.name ELSE @,
                                 !.args = @ \o tc.arguments]
    IN  [st EXCEPT
            !.started = TRUE,
            !.textBlockIndex = Null,
            !.nextIndex = IF opens THEN st.nextIndex + 1 ELSE st.nextIndex,
            !.randCount = IF drawsId THEN st.randCount + 1 ELSE st.randCount,
            !.toolBlocks = TbSet(st.toolBlocks, idx, state1),
            !.out = st.out
                \o (IF st.started THEN <<>> ELSE <<MessageStart(0)>>)
                \o StopTextBlock(st)
                \o (IF opens
                    THEN <<ToolBlockStart(state0.index, state0.id,
                                          IF state0.name # "" THEN state0.name ELSE "tool")>>
                    ELSE <<>>)
                \o (IF tc.arguments # <<>>
                    THEN <<InputJsonDelta(state0.index, tc.arguments)>> ELSE <<>>)]

RECURSIVE OnToolCalls(_, _)
OnToolCalls(st, tcs) ==
    IF tcs = <<>> THEN st ELSE OnToolCalls(OnToolCall(st, Head(tcs)), Tail(tcs))

\* the stops yielded by `for (const state of toolBlocks.values())`
RECURSIVE CloseToolBlocks(_)
CloseToolBlocks(tb) ==
    IF tb = <<>> THEN <<>>
    ELSE (IF Head(tb).closed THEN <<>> ELSE <<BlockStop(Head(tb).index)>>)
         \o CloseToolBlocks(Tail(tb))

\* one entry of delta.tool_calls: the first chunk of a call carries id and
\* name, a continuation carries arguments only; index may be missing
ToolCallInputs ==
    {[index |-> i, id |-> 20 + i, name |-> "Bash", arguments |-> a] :
        i \in {Null, 1}, a \in {<<>>, <<"{", "}">>}}
    \cup {[index |-> i, id |-> NoId, name |-> "", arguments |-> a] :
        i \in {Null, 1}, a \in {<<>>, <<"{", "}">>}}
ToolCallLists ==
    {<<>>} \cup {<<tc>> : tc \in ToolCallInputs}
           \cup {<<a, b>> : a \in {tc \in ToolCallInputs : tc.id # NoId},
                            b \in {tc \in ToolCallInputs : tc.id = NoId}}

GithubInit == AdapterInit /\ PoolIdle

\* one parsed 'data:' line: chunk.choices[0] with finish_reason, delta.content
\* and delta.tool_calls (each possibly missing)
OnGithubChunk ==
    /\ phase = "reading" /\ consumed < MaxChunks
    /\ consumed' = consumed + 1
    /\ \E finish_reason \in {"", "stop", "tool_calls"}, content \in {<<>>, <<"t">>},
          tool_calls \in ToolCallLists :
         \E st2 \in {OnToolCalls(IF content # <<>> THEN OnContent(GithubLocals, content)
                                   ELSE GithubLocals, tool_calls)} :
             /\ stopReason' = IF finish_reason # "" THEN FinishToStopReason(finish_reason)
                              ELSE stopReason
             /\ started' = st2.started
             /\ nextIndex' = st2.nextIndex
             /\ textBlockIndex' = st2.textBlockIndex
             /\ toolBlocks' = st2.toolBlocks
             /\ out' = st2.out
             /\ randCount' = st2.randCount
    /\ UNCHANGED <<phase, notGithub>>

\* a line that is not 'data:', '[DONE]', or a payload that does not parse
OnGithubIgnoredLine ==
    /\ phase = "reading" /\ consumed < MaxChunks
    /\ consumed' = consumed + 1
    /\ UNCHANGED <<phase, started, textBlockIndex, nextIndex, out, randCount, githubVars, notGithub>>

\* reader.read() reports done: the code after the read loop
OnGithubStreamEnd ==
    /\ phase = "reading"
    /\ IF ~started
       THEN /\ phase' = "thrown"
            /\ UNCHANGED <<out, toolBlocks>>
       ELSE /\ phase' = "done"
            /\ toolBlocks' = [i \in DOMAIN toolBlocks |-> [toolBlocks[i] EXCEPT !.closed = TRUE]]
            /\ out' = out
                 \o (IF textBlockIndex # Null THEN <<BlockStop(textBlockIndex)>> ELSE <<>>)
                 \o CloseToolBlocks(toolBlocks)
                 \o <<MessageDelta(GithubStopReason(toolBlocks, stopReason), 0), MessageStop>>
    /\ UNCHANGED <<started, textBlockIndex, nextIndex, consumed, randCount, stopReason, notGithub>>

GithubNext ==
    \/ OnGithubChunk
    \/ OnGithubIgnoredLine
    \/ OnGithubStreamEnd

SpecGithub == GithubInit /\ [][GithubNext]_vars

(***************************************************************************)
(* streamCursorResponseToAnthropic: the generator walks the results        *)
(* parseCursorResponseBuffer decoded from the response body.  toolBlocks   *)
(* is the Map from tool call id to { index, closed }; stopReason holds     *)
(* what sawToolCall selects.                                               *)
(***************************************************************************)
\* result.toolCall as the frames carry it: a call arrives in one frame or
\* in several, the last one flagged isLast
CursorToolCalls ==
    [id : {31, 32}, name : {"Bash"}, arguments : {<<>>, <<"{", "}">>}, isLast : BOOLEAN]

CursorInit == AdapterInit /\ PoolIdle

CursorReading == phase = "reading" /\ consumed < MaxChunks

\* parseCursorResponseBuffer(buffer) throws before anything is yielded
OnCursorParseError ==
    /\ phase = "reading" /\ consumed = 0
    /\ phase' = "thrown"
    /\ UNCHANGED <<started, textBlockIndex, nextIndex, out, consumed, randCount, githubVars,
                   notGithub>>

\* if (result?.toolCall) { ... continue; }
OnCursorToolCall ==
    /\ CursorReading
    /\ consumed' = consumed + 1
    /\ \E tc \in CursorToolCalls :
         LET has == TbHas(toolBlocks, tc.id)
             opens == ~has \/ TbGet(toolBlocks, tc.id).closed
             block == IF opens
                      THEN [key |-> tc.id, id |-> tc.id, name |-> tc.name, args |-> <<>>,
                            index |-> nextIndex, closed |-> FALSE]
                      ELSE TbGet(toolBlocks, tc.id)
             closes == tc.isLast /\ ~block.closed
         IN  /\ nextIndex' = IF opens THEN nextIndex + 1 ELSE nextIndex
             /\ toolBlocks' = TbSet(toolBlocks, tc.id, [block EXCEPT !.closed = @ \/ closes])
             /\ out' = out
                    \o (IF started THEN <<>> ELSE <<MessageStart(0)>>)
                    \o (IF textBlockIndex # Null THEN <<BlockStop(textBlockIndex)>> ELSE <<>>)
                    \o (IF opens THEN <<ToolBlockStart(block.index, tc.id, tc.name)>> ELSE <<>>)
                    \o (IF tc.arguments # <<>>
                        THEN <<InputJsonDelta(block.index, tc.arguments)>> ELSE <<>>)
                    \o (IF closes THEN <<BlockStop(block.index)>> ELSE <<>>)
    /\ started' = TRUE
    /\ textBlockIndex' = Null
    /\ stopReason' = "tool_use"
    /\ UNCHANGED <<phase, randCount, notGithub>>

\* a result with text: the open tool blocks are closed, then the text delta
OnCursorText ==
    /\ CursorReading
    /\ consumed' = consumed + 1
    /\ started' = TRUE
    /\ toolBlocks' = [i \in DOMAIN toolBlocks |-> [toolBlocks[i] EXCEPT !.closed = TRUE]]
    /\ textBlockIndex' = IF textBlockIndex = Null THEN nextIndex ELSE textBlockIndex
    /\ nextIndex' = IF textBlockIndex = Null THEN nextIndex + 1 ELSE nextIndex
    /\ out' = out
           \o (IF started THEN <<>> ELSE <<MessageStart(0)>>)
           \o CloseToolBlocks(toolBlocks)
           \o (IF textBlockIndex = Null THEN <<TextBlockStart(nextIndex)>> ELSE <<>>)
           \o <<TextDelta(textBlockIndex', <<"t">>)>>
    /\ UNCHANGED <<phase, randCount, stopReason, notGithub>>

\* if (!result?.text) continue;
OnCursorEmptyResult ==
    /\ CursorReading
    /\ consumed' = consumed + 1
    /\ UNCHANGED <<phase, started, textBlockIndex, nextIndex, out, randCount, githubVars, notGithub>>

\* the code after the for loop
OnCursorEnd ==
    /\ phase = "reading"
    /\ IF ~started
       THEN /\ phase' = "thrown"
            /\ UNCHANGED out
       ELSE /\ phase' = "done"
            /\ out' = out
                 \o (IF textBlockIndex # Null THEN <<BlockStop(textBlockIndex)>> ELSE <<>>)
                 \o CloseToolBlocks(toolBlocks)
                 \o <<MessageDelta(stopReason, 0), MessageStop>>
    /\ UNCHANGED <<started, textBlockIndex, nextIndex, consumed, randCount, githubVars, notGithub>>

CursorNext ==
    \/ OnCursorParseError
    \/ OnCursorToolCall
    \/ OnCursorText
    \/ OnCursorEmptyResult
    \/ OnCursorEnd

SpecCursor == CursorInit /\ [][CursorNext]_vars

(***************************************************************************)
(* The account pool: GithubAccountManager / CursorAccountManager.  The two *)
(* classes have the same selectAccount, getMinWaitMs, markRateLimited,     *)
(* markInvalid and addAccount; the Codex pool (docs/codex.md, section 2)   *)
(* is driven through the same interface.  Times are integral ms, so the    *)
(* ISO-8601 round trip of cooldownUntil and lastUsed keeps the value;      *)
(* 0 stands for null.                                                      *)
(***************************************************************************)
Max(a, b) == IF a >= b THEN a ELSE b
SetMin(S) == CHOOSE x \in S : \A y \in S : x <= y

\* the `continue` conditions of the selectAccount loop, negated
\* mutant: an invalid account stays selectable
IsSelectableIgnoringInvalid(acc, t) ==
    /\ acc.enabled
    /\ ~(acc.cooldownUntil # 0 /\ acc.cooldownUntil > t)
\* mutant: a cooling account stays selectable
IsSelectableIgnoringCooldown(acc, t) == acc.enabled /\ ~acc.isInvalid
IsSelectable(acc, t) ==
    /\ acc.enabled /\ ~acc.isInvalid
    /\ ~(acc.cooldownUntil # 0 /\ acc.cooldownUntil > t)

\* getMinWaitMs()
GetMinWaitMs(accts, t) ==
    LET future == {accts[i].cooldownUntil : i \in {j \in DOMAIN accts :
                        accts[j].cooldownUntil # 0 /\ accts[j].cooldownUntil > t}}
    IN  IF future = {} THEN 0 ELSE Max(0, SetMin(future) - t)

\* mutant: the account found is returned and #activeIndex stays where it was
SelectAccountSticky(accts, ai, t) ==
    LET total == Len(accts)
        hits == {i \in 0..(total - 1) : IsSelectable(accts[((ai + i) % total) + 1], t)}
    IN  IF total = 0 \/ hits = {}
        THEN [idx |-> 0,
              waitMs |-> IF total = 0 THEN 0 ELSE GetMinWaitMs(accts, t),
              accounts |-> accts, activeIndex |-> ai]
        ELSE LET idx == (ai + SetMin(hits)) % total
             IN  [idx |-> idx + 1, waitMs |-> 0,
                  accounts |-> [accts EXCEPT ![idx + 1].lastUsed = t],
                  activeIndex |-> ai]
\* selectAccount(): [idx |-> 1-based position of the account returned (0: null),
\*                   waitMs, accounts, activeIndex]
SelectAccount(accts, ai, t) ==
    LET total == Len(accts)
        hits == {i \in 0..(total - 1) : IsSelectable(accts[((ai + i) % total) + 1], t)}
    IN  IF total = 0 \/ hits = {}
        THEN [idx |-> 0,
              waitMs |-> IF total = 0 THEN 0 ELSE GetMinWaitMs(accts, t),
              accounts |-> accts, activeIndex |-> ai]
        ELSE LET idx == (ai + SetMin(hits)) % total
             IN  [idx |-> idx + 1, waitMs |-> 0,
                  accounts |-> [accts EXCEPT ![idx + 1].lastUsed = t],
                  activeIndex |-> (idx + 1) % total]

\* mutant: the first account of the pool is found, whatever its id
FindFirstAccount(accts, accountId) == IF accts = <<>> THEN 0 ELSE 1
\* this.#accounts.find(a => a.id === accountId || a.email === accountId): position or 0
FindAccount(accts, accountId) ==
    LET hits == {i \in DOMAIN accts : accts[i].id = accountId \/ accts[i].email = accountId}
    IN  IF hits = {} THEN 0 ELSE SetMin(hits)

\* mutant: the cooldown is not stored
MarkRateLimitedNoCooldown(accts, accountId, waitMs, t) == accts
\* markRateLimited(accountId, waitMs)
MarkRateLimited(accts, accountId, waitMs, t) ==
    LET i == FindAccount(accts, accountId)
    IN  IF i = 0 THEN accts ELSE [accts EXCEPT ![i].cooldownUntil = t + waitMs]

\* markInvalid(accountId, reason)
MarkInvalid(accts, accountId, reason) ==
    LET i == FindAccount(accts, accountId)
    IN  IF i = 0 THEN accts
        ELSE [accts EXCEPT ![i].isInvalid = TRUE,
                           ![i].invalidReason = IF reason # "" THEN reason ELSE "invalid"]

\* the position addAccount(account) updates, or 0 when it pushes
FindExisting(accts, account) ==
    LET hits == {i \in DOMAIN accts :
                    \/ accts[i].id = account.id
                    \/ (account.email # NoId /\ accts[i].email = account.email)}
    IN  IF hits = {} THEN 0 ELSE SetMin(hits)

\* addAccount(account), for an account object as the CLIs build it:
\* {id, email, credentials, addedAt, enabled: true}
AddAccountTo(accts, account) ==
    LET i == FindExisting(accts, account)
    IN  IF i # 0
        THEN [accts EXCEPT ![i].id = account.id, ![i].email = account.email,
                           ![i].enabled = TRUE, ![i].isInvalid = FALSE,
                           ![i].invalidReason = ""]
        ELSE Append(accts, [id |-> account.id, email |-> account.email, enabled |-> TRUE,
                            isInvalid |-> FALSE, invalidReason |-> "",
                            cooldownUntil |-> 0, lastUsed |-> 0])

(***************************************************************************)
(* The retry loops: sendCodexMessageStream / sendCodexMessage,             *)
(* sendGithubMessageStream / sendGithubMessage, sendCursorMessageStream /  *)
(* sendCursorMessage.  One action is the code a request runs between two   *)
(* awaits.                                                                 *)
(***************************************************************************)
\* DEFAULT_COOLDOWN_MS of src/constants.js
DEFAULT_COOLDOWN_MS == 60000
\* the fail-fast threshold of the Codex loop: waitMs > 60_000
FAIL_FAST_MS == 60000
\* sleep(waitMs + 500)
SLEEP_SLACK_MS == 500
\* Number(retryAfter) of a header that is not a number
NaN == -2

\* a 429 reset hint: <<Retry-After header, body>>
NoBody == [parses |-> FALSE, resets_in_seconds |-> 0, resets_at |-> 0]
NoHint == <<Null, NoBody>>
Hints ==
    {NoHint,
     <<42, [parses |-> TRUE, resets_in_seconds |-> 30, resets_at |-> 0]>>,
     <<Null, [parses |-> TRUE, resets_in_seconds |-> 30, resets_at |-> 0]>>,
     <<NaN, [parses |-> TRUE, resets_in_seconds |-> 0, resets_at |-> 130]>>,
     <<0, [parses |-> TRUE, resets_in_seconds |-> 0, resets_at |-> 50]>>,
     <<120, NoBody>>}

\* mutant: the budget ignores the pool size
MaxAttemptsFixed(count) == 3
\* Math.max(3, manager.getAccountCount() + 1)
MaxAttempts(count) == Max(3, count + 1)

\* Math.ceil(waitMs / 60_000)
ResetMins(waitMs) == (waitMs + 59999) \div 60000

\* mutant: the Retry-After header is not read
ParseRetryAfterBodyOnly(header, body, t) ==
    IF body.parses /\ body.resets_in_seconds > 0 THEN body.resets_in_seconds * 1000
    ELSE IF body.parses /\ body.resets_at # 0 /\ body.resets_at * 1000 - t > 0
         THEN body.resets_at * 1000 - t
         ELSE 0
\* parseRetryAfter(response, bodyText) of the Codex handlers; 0 stands for null.
\* header: Null when absent, NaN when not a number, else Number(retryAfter);
\* body: JSON.parse(bodyText) and its error (or top-level) fields, 0 when absent
ParseRetryAfter(header, body, t) ==
    IF header # Null /\ header # NaN /\ header > 0 THEN header * 1000
    ELSE IF body.parses /\ body.resets_in_seconds > 0 THEN body.resets_in_seconds * 1000
    ELSE IF body.parses /\ body.resets_at # 0 /\ body.resets_at * 1000 - t > 0
         THEN body.resets_at * 1000 - t
         ELSE 0

\* the cooldown a 429 puts on the account: only the Codex loops read the hint
RetryMs(kind, header, body, t) ==
    IF kind = "codex" /\ ParseRetryAfter(header, body, t) # 0
    THEN ParseRetryAfter(header, body, t)
    ELSE DEFAULT_COOLDOWN_MS

\* the loop that never gives up on a long cooldown
FailsFastNever(waitMs) == FALSE

\* if (waitMs > 60_000) throw RESOURCE_EXHAUSTED: the Codex loop only
FailsFast(waitMs) == backend = "codex" /\ waitMs > FAIL_FAST_MS

\* mutant: the sleep resolves at once, before any time has passed
SleepUntilNow(t, waitMs) == t
\* await sleep(waitMs + 500): the time at which the timer resolves
SleepUntil(t, waitMs) == t + waitMs + SLEEP_SLACK_MS

\* the head of the for loop up to its first await: the attempt < maxAttempts
\* test, selectAccount() and the three branches on its result
EnterIteration(rq, accts, ai, t) ==
    IF rq.attempt >= rq.maxAttempts
    THEN [rq |-> [rq EXCEPT !.pc = "failed", !.error = "retries", !.account = 0],
          accounts |-> accts, activeIndex |-> ai]
    ELSE LET sel == SelectAccount(accts, ai, t)
         IN  IF sel.idx = 0 /\ sel.waitMs > 0
             THEN IF FailsFast(sel.waitMs)
                  THEN [rq |-> [rq EXCEPT !.pc = "failed", !.error = "exhausted", !.account = 0,
                                          !.resetMins = ResetMins(sel.waitMs)],
                        accounts |-> accts, activeIndex |-> ai]
                  ELSE [rq |-> [rq EXCEPT !.pc = "sleep", !.account = 0,
                                          !.wakeAt = SleepUntil(t, sel.waitMs)],
                        accounts |-> accts, activeIndex |-> ai]
             ELSE IF sel.idx = 0
             THEN [rq |-> [rq EXCEPT !.pc = "failed", !.error = "noaccounts", !.account = 0],
                   accounts |-> accts, activeIndex |-> ai]
             ELSE [rq |-> [rq EXCEPT !.pc = IF backend = "cursor" THEN "fetch" ELSE "token",
                                     !.account = sel.idx,
                                     !.selects = @ + 1,
                                     !.calls = IF backend = "cursor" THEN @ + 1 ELSE @],
                   accounts |-> sel.accounts, activeIndex |-> sel.activeIndex]

\* mutant: the loop gives up instead of moving on to the next account
ContinueGivesUp(rq, accts, ai, t) ==
    [rq |-> [rq EXCEPT !.pc = "failed", !.error = "error", !.account = 0],
     accounts |-> accts, activeIndex |-> ai]
\* `continue` after a response was handled: attempt++ and the next iteration
Continue(rq, accts, ai, t) ==
    EnterIteration([rq EXCEPT !.attempt = @ + 1, !.account = 0], accts, ai, t)

\* catch (error) { if (attempt + 1 >= maxAttempts) throw error; } and the next iteration
Catch(rq, accts, ai, t) ==
    IF rq.attempt + 1 >= rq.maxAttempts
    THEN [rq |-> [rq EXCEPT !.pc = "failed", !.error = "error", !.account = 0,
                            !.otherFailure = TRUE, !.threw = TRUE],
          accounts |-> accts, activeIndex |-> ai]
    ELSE Continue([rq EXCEPT !.otherFailure = TRUE, !.threw = TRUE], accts, ai, t)

RECURSIVE TotalSelects(_, _)
TotalSelects(rqs, n) == IF n = 0 THEN 0 ELSE rqs[n].selects + TotalSelects(rqs, n - 1)

\* the operations and events of the run so far
Ops(rqs, t, a, h) == TotalSelects(rqs, Len(rqs)) + t + a + h

\* the operations a run may take: MaxOps, and one more for each request
\* served alongside the MaxRequests
Budget == MaxOps + (Len(req) - MaxRequests)

Apply(r, res) ==
    /\ req' = [req EXCEPT ![r] = res.rq]
    /\ Ops(req', ticks, adds, hinted) <= Budget
    /\ accounts' = res.accounts
    /\ activeIndex' = res.activeIndex

\* the request is received and runs up to its first await
StartRequest(r) ==
    /\ req[r].pc = "idle"
    /\ \A q \in 1..(r - 1) : req[q].pc # "idle"
    /\ Apply(r, EnterIteration(
            [req[r] EXCEPT !.maxAttempts = MaxAttempts(Len(accounts)),
                           !.startedAt = now,
                           !.startCount = Len(accounts),
                           !.startAvail = {i \in DOMAIN accounts : IsSelectable(accounts[i], now)}],
            accounts, activeIndex, now))
    /\ UNCHANGED <<backend, now, ticks, adds, hinted, authFailed, notRetry>>

\* sleep(waitMs + 500) resolves; attempt-- and continue leave attempt as it was
WakeUp(r) ==
    /\ req[r].pc = "sleep"
    /\ now' = Max(now, req[r].wakeAt)
    /\ \* the next iteration reads Date.now() after the sleep
       Apply(r, EnterIteration([req[r] EXCEPT !.wakeAt = 0, !.hint = <<>>, !.retryMs = 0,
                                               !.tokenError = "", !.embedded = "", !.outcome = ""], accounts, activeIndex,
                               Max(now, req[r].wakeAt)))
    /\ UNCHANGED <<backend, ticks, adds, hinted, authFailed, notRetry>>


\* await getTokenForAccount(account) / getCopilotToken(account) settles: the
\* token is returned and fetch() is called, or the call throws into the catch.
TokenResult(r) ==
    /\ req[r].pc = "token"
    /\ \/ /\ req' = [req EXCEPT ![r].pc = "fetch", ![r].calls = @ + 1, ![r].hint = <<>>, ![r].retryMs = 0,
                                ![r].tokenError = "", ![r].embedded = "", ![r].outcome = ""]
          /\ UNCHANGED <<accounts, activeIndex, authFailed>>
       \/ \* the token could not be obtained: `Failed to refresh Copilot token` and the like
          /\ Apply(r, Catch([req[r] EXCEPT !.hint = <<>>, !.retryMs = 0, !.tokenError = "refresh",
                                             !.outcome = "other"],
                            accounts, activeIndex, now))
          /\ UNCHANGED authFailed
       \/ \* getCopilotToken: the token was refreshed, `await this.saveToDisk()` rejected
          /\ backend = "github"
          /\ Apply(r, Catch([req[r] EXCEPT !.hint = <<>>, !.retryMs = 0, !.tokenError = "save",
                                             !.outcome = "other"],
                            accounts, activeIndex, now))
          /\ UNCHANGED authFailed
    /\ UNCHANGED <<backend, now, ticks, adds, hinted, notRetry>>

\* the backend call settles: fetch() rejects, or the response arrives and the
\* status is classified
FetchResult(r) ==
    /\ req[r].pc = "fetch"
    /\ LET rq == req[r]
           id == accounts[rq.account].id
       IN  \/ \* response.ok / status 200
              /\ req' = [req EXCEPT ![r].pc = "stream", ![r].hint = <<>>, ![r].retryMs = 0,
                                    ![r].answered200 = @ \cup {rq.account}, ![r].outcome = "ok"]
              /\ UNCHANGED <<accounts, activeIndex, authFailed, hinted>>
           \/ \* 401 or 403
              /\ Apply(r, Continue([rq EXCEPT !.otherFailure = TRUE, !.hint = <<>>, !.retryMs = 0,
                                              !.answered401 = @ \cup {rq.account},
                                              !.outcome = "auth"],
                                   MarkInvalid(accounts, id, "Unauthorized"),
                                   activeIndex, now))
              /\ authFailed' = authFailed \cup {rq.account}
              /\ UNCHANGED hinted
           \/ \* 429
              \E hint \in Hints :
                LET ms == RetryMs(backend, hint[1], hint[2], now)
                IN  /\ hinted' = IF hint # NoHint THEN hinted + 1 ELSE hinted
                    /\ Apply(r, Continue([rq EXCEPT !.answered429 = @ \cup {rq.account},
                                                    !.hint = hint, !.retryMs = ms,
                                                    !.outcome = "rate"],
                                         MarkRateLimited(accounts, id, ms, now),
                                         activeIndex, now))
                    /\ Ops(req', ticks, adds, hinted') <= Budget
                    /\ UNCHANGED authFailed
           \/ \* another status, or fetch() rejected
              /\ Apply(r, Catch([rq EXCEPT !.hint = <<>>, !.retryMs = 0, !.outcome = "other"],
                                accounts, activeIndex, now))
              /\ UNCHANGED <<authFailed, hinted>>
    /\ UNCHANGED <<backend, now, ticks, adds, notRetry>>

\* what a response body that cannot be served holds: an embedded {"error": ...}
\* JSON payload reporting an authentication or a rate-limit error, a decoded
\* frame with an error field, or no content at all
EmbeddedKinds == {"auth", "rate", "frame", "nocontent"}

\* the statusCode of the error parseCursorResponseBuffer or the adapter throws
StatusCodeOf(kind) ==
    IF kind \in {"auth", "rate"} THEN 400
    ELSE IF kind = "frame" THEN 429
    ELSE Null

\* the message_start events the adapter has yielded when the read of the
\* response body rejects: none yet, or the one of this attempt
YieldedBeforeFailure == {0, 1}
\* the message_start events the client has received after `yielded` more,
\* counted up to two
Received(n, yielded) == IF n + yielded >= 2 THEN 2 ELSE n + yielded

\* the response body is consumed: the adapter finishes and the request
\* returns, or it throws.  Only the Cursor loops classify a thrown error.
StreamResult(r) ==
    /\ req[r].pc = "stream"
    /\ LET rq == req[r]
           id == accounts[rq.account].id
       IN  \/ \* every event of the adapter is yielded to the client, message_start included
              /\ req' = [req EXCEPT ![r].pc = "done", ![r].account = 0,
                                    ![r].messageStarts = Received(@, 1), ![r].outcome = "ok"]
              /\ UNCHANGED <<accounts, activeIndex, authFailed>>
           \/ \* reader.read() rejects, before or after the adapter yielded message_start
              /\ backend # "cursor"
              /\ \E yielded \in YieldedBeforeFailure :
                    Apply(r, Catch([rq EXCEPT !.hint = <<>>, !.retryMs = 0,
                                              !.messageStarts = Received(@, yielded),
                                              !.outcome = "other"],
                                   accounts, activeIndex, now))
              /\ UNCHANGED authFailed
           \/ /\ backend = "cursor"
              /\ \E kind \in EmbeddedKinds :
                    LET statusCode == StatusCodeOf(kind)
                    IN  IF statusCode \in {401, 403}
                        THEN /\ Apply(r, Continue([rq EXCEPT !.otherFailure = TRUE, !.hint = <<>>,
                                                             !.retryMs = 0, !.embedded = kind,
                                                             !.answered401 = @ \cup {rq.account},
                                                             !.outcome = "auth"],
                                                  MarkInvalid(accounts, id, "Unauthorized"),
                                                  activeIndex, now))
                             /\ authFailed' = authFailed \cup {rq.account}
                        ELSE IF statusCode = 429
                        THEN /\ Apply(r, Continue([rq EXCEPT !.answered429 = @ \cup {rq.account},
                                                             !.hint = <<>>, !.embedded = kind,
                                                             !.retryMs = DEFAULT_COOLDOWN_MS,
                                                             !.outcome = "rate"],
                                                  MarkRateLimited(accounts, id, DEFAULT_COOLDOWN_MS, now),
                                                  activeIndex, now))
                             /\ UNCHANGED authFailed
                        ELSE /\ Apply(r, Catch([rq EXCEPT !.hint = <<>>, !.retryMs = 0,
                                                          !.embedded = kind, !.outcome = "other"],
                                               accounts, activeIndex, now))
                             /\ UNCHANGED authFailed
    /\ UNCHANGED <<backend, now, ticks, adds, hinted, notRetry>>

\* time passes while a backend call is in flight, or between two requests
TickSteps == {70000}
Tick ==
    /\ Ops(req, ticks, adds, hinted) < Budget
    /\ \/ \E r \in Requests : req[r].pc = "fetch"
       \/ /\ \A r \in Requests : req[r].pc \in {"idle", "done", "failed"}
          /\ \E r \in Requests : req[r].pc # "idle"
          /\ \E r \in Requests : req[r].pc = "idle"
    /\ \E d \in TickSteps : now' = now + d
    /\ ticks' = ticks + 1
    /\ UNCHANGED <<backend, accounts, activeIndex, adds, hinted, req, authFailed, notRetry>>

\* account k as a CLI builds it: id = email || random id, email = email || null
CliAccount(k) == [id |-> k, email |-> IF k % 2 = 1 THEN k ELSE NoId]

\* the operator adds (or re-adds) an account while the proxy serves requests
AddAccount ==
    /\ Ops(req, ticks, adds, hinted) < Budget
    /\ \E r \in Requests : req[r].pc # "idle"
    /\ adds' = adds + 1
    /\ \E k \in 1..(IF Len(accounts) < MaxAccounts THEN Len(accounts) + 1 ELSE MaxAccounts) :
         LET i == FindExisting(accounts, CliAccount(k))
         IN  /\ accounts' = AddAccountTo(accounts, CliAccount(k))
             /\ accounts' # accounts
             /\ authFailed' = authFailed \ {i}
    /\ UNCHANGED <<backend, activeIndex, now, ticks, hinted, req, notRetry>>

\* the clock when the first request arrives
StartTime == 100000
\* the states an account loaded by initialize() may be in
AccountProfiles(k) ==
    LET base == [id |-> CliAccount(k).id, email |-> CliAccount(k).email, enabled |-> TRUE,
                 isInvalid |-> FALSE, invalidReason |-> "", cooldownUntil |-> 0, lastUsed |-> 0]
    IN  <<base,
          [base EXCEPT !.cooldownUntil = StartTime + 30000],
          [base EXCEPT !.cooldownUntil = StartTime + 120000],
          [base EXCEPT !.isInvalid = TRUE, !.invalidReason = "Unauthorized"],
          [base EXCEPT !.enabled = FALSE, !.cooldownUntil = StartTime + 30000]>>
\* pools of up to two accounts in every combination of profiles (the cursor
\* takes every position, so one order of the two profiles is enough); larger
\* pools with every account available
InitialPools ==
    UNION {{[k \in 1..n |-> AccountProfiles(k)[f[k]]] :
                f \in {g \in [1..n -> 1..(IF n <= 2 THEN 5 ELSE 1)] :
                            \A k \in 1..(n - 1) : g[k] <= g[k + 1]}}
           : n \in 0..MaxAccounts}

RetryInit ==
    /\ AdapterInit
    /\ ManagerIdle
    /\ backend \in {"codex", "github", "cursor"}
    /\ accounts \in InitialPools
    /\ activeIndex \in 0..Max(0, Len(accounts) - 1)
    /\ now = StartTime
    /\ ticks = 0
    /\ adds = 0
    /\ hinted = 0
    /\ req = [r \in 1..MaxRequests |-> IdleRequest]
    /\ authFailed = {}

RetryNext ==
    \/ \E r \in Requests : StartRequest(r)
    \/ \E r \in Requests : WakeUp(r)
    \/ \E r \in Requests : TokenResult(r)
    \/ \E r \in Requests : FetchResult(r)
    \/ \E r \in Requests : StreamResult(r)
    \/ Tick
    \/ AddAccount

SpecRetry == RetryInit /\ [][RetryNext]_vars

\* requests served concurrently by the Codex or the GitHub loop from a pool
\* of two available accounts, the cursor on the first (activeIndex || 0)
ConcurrentInit ==
    /\ AdapterInit
    /\ ManagerIdle
    /\ backend \in {"codex", "github"}
    /\ accounts = [k \in 1..2 |-> AccountProfiles(k)[1]]
    /\ activeIndex = 0
    /\ now = StartTime
    /\ ticks = 0
    /\ adds = 0
    /\ hinted = 0
    /\ req = [r \in 1..(MaxRequests + 1) |-> IdleRequest]
    /\ authFailed = {}

SpecConcurrent == ConcurrentInit /\ [][RetryNext]_vars

\* every backend call and every sleep of a request settles, and every request
\* of the run is received
RequestsSettle ==
    \A r \in 1..2 :
        /\ WF_vars(StartRequest(r))
        /\ WF_vars(WakeUp(r))
        /\ WF_vars(TokenResult(r))
        /\ WF_vars(FetchResult(r))
        /\ WF_vars(StreamResult(r))

\* two requests served concurrently by the GitHub or the Cursor loop, the
\* loops that sleep through any cooldown, from a small pool of available accounts
WaitingInit ==
    /\ AdapterInit
    /\ ManagerIdle
    /\ backend \in {"github", "cursor"}
    /\ accounts \in {[k \in 1..n |-> AccountProfiles(k)[1]] : n \in 1..(MaxAccounts - 2)}
    /\ activeIndex \in 0..(Len(accounts) - 1)
    /\ now = StartTime
    /\ ticks = 0
    /\ adds = 0
    /\ hinted = 0
    /\ req = [r \in 1..2 |-> IdleRequest]
    /\ authFailed = {}

\* the requests alone: nothing else touches the pool
WaitingNext ==
    \/ \E r \in Requests : StartRequest(r)
    \/ \E r \in Requests : WakeUp(r)
    \/ \E r \in Requests : TokenResult(r)
    \/ \E r \in Requests : FetchResult(r)
    \/ \E r \in Requests : StreamResult(r)

SpecConcurrentFair == WaitingInit /\ [][WaitingNext]_vars /\ RequestsSettle

(***************************************************************************)
(* The GitHub account manager called by concurrent requests:               *)
(* selectAccount, markRateLimited, markInvalid, getCopilotToken and the    *)
(* saveToDisk() each of them starts.  One action is the code run between   *)
(* two awaits.  The Cursor manager has the same selectAccount, mark* and   *)
(* saveToDisk and no token refresh.                                        *)
(***************************************************************************)
REFRESH_BUFFER_MS == 5 * 60 * 1000
\* the lifetime of a token the endpoint issues, in s
TOKEN_LIFETIME_S == 1800

\* isExpiringSoon(expiresAt): the endpoint's expires_at is a number of
\* seconds, below 1e12, which the function turns into ms
IsExpiringSoon(expiresAt, t) ==
    IF expiresAt = 0 THEN TRUE
    ELSE expiresAt * 1000 - t < REFRESH_BUFFER_MS

\* writeFile calls in flight
WritesInFlight == saveWrite + Cardinality({c \in Callers : callers[c].pc = "write"})

\* a request calls selectAccount(); on a hit it starts saveToDisk().catch(() => {})
CallSelectAccount ==
    /\ calls < MaxCalls
    /\ calls' = calls + 1
    /\ LET sel == SelectAccount(accounts, activeIndex, now)
       IN  /\ accounts' = sel.accounts
           /\ activeIndex' = sel.activeIndex
           /\ lastIdx' = sel.idx
           /\ granted' = IF sel.idx # 0 THEN granted + 1 ELSE granted
           /\ saveMkdir' = IF sel.idx # 0 THEN saveMkdir + 1 ELSE saveMkdir
    /\ UNCHANGED <<now, copilotToken, copilotTokenExpiresAt, callers, issued, saveWrite, notManager>>

\* the request that was given an account got a 429: markRateLimited(account.id, DEFAULT_COOLDOWN_MS)
CallMarkRateLimited ==
    /\ calls < MaxCalls
    /\ lastIdx # 0
    /\ calls' = calls + 1
    /\ accounts' = MarkRateLimited(accounts, accounts[lastIdx].id, DEFAULT_COOLDOWN_MS, now)
    /\ saveMkdir' = saveMkdir + 1
    /\ UNCHANGED <<activeIndex, now, copilotToken, copilotTokenExpiresAt, callers, issued,
                   saveWrite, granted, lastIdx, notManager>>

\* the request that was given an account got a 401/403: markInvalid(account.id, 'Unauthorized')
CallMarkInvalid ==
    /\ calls < MaxCalls
    /\ lastIdx # 0
    /\ calls' = calls + 1
    /\ accounts' = MarkInvalid(accounts, accounts[lastIdx].id, "Unauthorized")
    /\ saveMkdir' = saveMkdir + 1
    /\ UNCHANGED <<activeIndex, now, copilotToken, copilotTokenExpiresAt, callers, issued,
                   saveWrite, granted, lastIdx, notManager>>

\* getCopilotToken(account) up to its first await: the cached token is
\* returned, or fetch(GITHUB_COPILOT_TOKEN_URL) is sent
CallGetCopilotToken(c) ==
    /\ calls < MaxCalls
    /\ callers[c].pc = "idle"
    /\ \A d \in 1..(c - 1) : callers[d].pc # "idle"
    /\ calls' = calls + 1
    /\ \E a \in DOMAIN accounts :
         IF copilotToken[a] # 0 /\ ~IsExpiringSoon(copilotTokenExpiresAt[a], now)
         THEN callers' = [callers EXCEPT ![c] = [pc |-> "returned", account |-> a,
                                                 result |-> copilotToken[a], error |-> ""]]
         ELSE callers' = [callers EXCEPT ![c] = [pc |-> "refresh", account |-> a,
                                                 result |-> 0, error |-> ""]]
    /\ UNCHANGED <<accounts, activeIndex, now, copilotToken, copilotTokenExpiresAt, issued,
                   saveMkdir, saveWrite, granted, lastIdx, notManager>>

\* await refreshCopilotToken(account.accessToken) settles: null makes the call
\* throw; a token is stored in the account and saveToDisk() is awaited
RefreshSettles(c) ==
    /\ callers[c].pc = "refresh"
    /\ LET a == callers[c].account
       IN  \/ /\ callers' = [callers EXCEPT ![c].pc = "thrown", ![c].error = "refresh"]
              /\ UNCHANGED <<copilotToken, copilotTokenExpiresAt, issued>>
           \/ /\ issued' = issued + 1
              /\ copilotToken' = [copilotToken EXCEPT ![a] = issued + 1]
              /\ copilotTokenExpiresAt' =
                    [copilotTokenExpiresAt EXCEPT ![a] = (now \div 1000) + TOKEN_LIFETIME_S]
              /\ callers' = [callers EXCEPT ![c].pc = "mkdir"]
    /\ UNCHANGED <<accounts, activeIndex, now, saveMkdir, saveWrite, granted, lastIdx, calls,
                   notManager>>

\* saveToDisk() awaited by getCopilotToken: await mkdir(dir) settles
CallerMkdirSettles(c) ==
    /\ callers[c].pc = "mkdir"
    /\ \/ callers' = [callers EXCEPT ![c].pc = "write"]
       \/ callers' = [callers EXCEPT ![c].pc = "thrown", ![c].error = "save"]
    /\ UNCHANGED <<accounts, activeIndex, now, copilotToken, copilotTokenExpiresAt, issued,
                   saveMkdir, saveWrite, granted, lastIdx, calls, notManager>>

\* saveToDisk() awaited by getCopilotToken: await writeFile(...) settles;
\* return account.copilotToken reads the field as it is by then
CallerWriteFileSettles(c) ==
    /\ callers[c].pc = "write"
    /\ \/ callers' = [callers EXCEPT ![c].pc = "returned",
                                      ![c].result = copilotToken[callers[c].account]]
       \/ callers' = [callers EXCEPT ![c].pc = "thrown", ![c].error = "save"]
    /\ UNCHANGED <<accounts, activeIndex, now, copilotToken, copilotTokenExpiresAt, issued,
                   saveMkdir, saveWrite, granted, lastIdx, calls, notManager>>

\* saveToDisk().catch(() => {}): await mkdir(dir) settles; a rejection is swallowed
SaveMkdirSettles ==
    /\ saveMkdir > 0
    /\ saveMkdir' = saveMkdir - 1
    /\ \/ saveWrite' = saveWrite + 1
       \/ saveWrite' = saveWrite
    /\ UNCHANGED <<accounts, activeIndex, now, copilotToken, copilotTokenExpiresAt, callers,
                   issued, granted, lastIdx, calls, notManager>>

\* saveToDisk().catch(() => {}): await writeFile(...) settles either way
SaveWriteFileSettles ==
    /\ saveWrite > 0
    /\ saveWrite' = saveWrite - 1
    /\ UNCHANGED <<accounts, activeIndex, now, copilotToken, copilotTokenExpiresAt, callers,
                   issued, saveMkdir, granted, lastIdx, calls, notManager>>

\* time passes between two calls
ManagerTick ==
    /\ calls < MaxCalls
    /\ calls' = calls + 1
    /\ \E d \in TickSteps : now' = now + d
    /\ granted' = 0
    /\ UNCHANGED <<accounts, activeIndex, copilotToken, copilotTokenExpiresAt, callers, issued,
                   saveMkdir, saveWrite, lastIdx, notManager>>

\* the token fields of the accounts initialize() loaded: no token, a token
\* about to enter the refresh buffer, a token good for an hour
TokenProfiles ==
    <<[token |-> 0, expiresAt |-> 0],
      [token |-> 1, expiresAt |-> (StartTime + REFRESH_BUFFER_MS + 50000) \div 1000],
      [token |-> 1, expiresAt |-> (StartTime \div 1000) + 3600]>>

ManagerInit ==
    /\ AdapterInit
    /\ backend = "github"
    /\ accounts \in InitialPools
    /\ activeIndex \in 0..Max(0, Len(accounts) - 1)
    /\ now = StartTime
    /\ ticks = 0
    /\ adds = 0
    /\ hinted = 0
    /\ req = [r \in 1..MaxRequests |-> IdleRequest]
    /\ authFailed = {}
    /\ \E p \in DOMAIN TokenProfiles :
         /\ copilotToken = [a \in DOMAIN accounts |-> TokenProfiles[p].token]
         /\ copilotTokenExpiresAt = [a \in DOMAIN accounts |-> TokenProfiles[p].expiresAt]
    /\ callers = [c \in Callers |-> IdleCaller]
    /\ issued = 1
    /\ saveMkdir = 0
    /\ saveWrite = 0
    /\ granted = 0
    /\ lastIdx = 0
    /\ calls = 0

ManagerNext ==
    \/ CallSelectAccount
    \/ CallMarkRateLimited
    \/ CallMarkInvalid
    \/ \E c \in Callers : CallGetCopilotToken(c)
    \/ \E c \in Callers : RefreshSettles(c)
    \/ \E c \in Callers : CallerMkdirSettles(c)
    \/ \E c \in Callers : CallerWriteFileSettles(c)
    \/ SaveMkdirSettles
    \/ SaveWriteFileSettles
    \/ ManagerTick

SpecManager == ManagerInit /\ [][ManagerNext]_vars

(***************************************************************************)
(* The Codex request converter: sanitizeSchema                             *)
(*                                                                         *)
(* A schema is a record with one field for each keyword the sanitizer      *)
(* looks at.  `keywords` holds the names of the remaining keywords of the  *)
(* object (their values are copied or deleted, never read); `properties`   *)
(* maps property names to schemas; `items` holds at most one schema.       *)
(***************************************************************************)
NoType == [arr |-> FALSE, names |-> <<>>]
TypeName(n) == [arr |-> FALSE, names |-> <<n>>]
TypeArray(ns) == [arr |-> TRUE, names |-> ns]
NoProperties == [n \in {} |-> <<>>]
EmptySchema ==
    [isObject |-> TRUE, type |-> NoType, ref |-> <<>>, description |-> <<>>,
     keywords |-> {}, hasProperties |-> FALSE, properties |-> NoProperties,
     items |-> <<>>, hasRequired |-> FALSE, required |-> <<>>,
     allOf |-> <<>>, anyOf |-> <<>>, oneOf |-> <<>>]
\* null, a string, a number: anything that is not an object
NotAnObject == [EmptySchema EXCEPT !.isObject = FALSE]

HasType(o) == o.type.arr \/ o.type.names # <<>>

\* const STRIP
STRIP ==
    {"additionalProperties", "default", "$schema", "$defs", "definitions",
     "$ref", "$id", "$comment", "minLength", "maxLength", "pattern", "format",
     "minItems", "maxItems", "examples", "allOf", "anyOf", "oneOf", "const"}

\* the schema returned for a missing or non-object schema
DefaultSchema ==
    [EmptySchema EXCEPT
        !.type = TypeName("object"),
        !.hasProperties = TRUE,
        !.properties = [n \in {"reason"} |->
                            [EmptySchema EXCEPT !.type = TypeName("string"),
                                                !.description = <<"Reason for calling this tool">>]],
        !.hasRequired = TRUE,
        !.required = <<"reason">>]

RECURSIVE Without(_, _)
\* seq.filter(x => x !== v)
Without(seq, v) ==
    IF seq = <<>> THEN <<>>
    ELSE IF Head(seq) = v THEN Without(Tail(seq), v)
    ELSE <<Head(seq)>> \o Without(Tail(seq), v)

RECURSIVE Within(_, _)
\* seq.filter(x => S.has(x))
Within(seq, S) ==
    IF seq = <<>> THEN <<>>
    ELSE IF Head(seq) \in S THEN <<Head(seq)>> \o Within(Tail(seq), S)
    ELSE Within(Tail(seq), S)

RECURSIVE Unique(_)
\* [...new Set(seq)]
Unique(seq) ==
    IF seq = <<>> THEN <<>>
    ELSE LET init == Unique(SubSeq(seq, 1, Len(seq) - 1))
             last == seq[Len(seq)]
         IN  IF \E i \in DOMAIN init : init[i] = last THEN init ELSE Append(init, last)

RECURSIVE Objects(_)
\* seq.filter(o => o && typeof o === 'object')
Objects(seq) ==
    IF seq = <<>> THEN <<>>
    ELSE IF Head(seq).isObject THEN <<Head(seq)>> \o Objects(Tail(seq))
    ELSE Objects(Tail(seq))

\* Object.assign(target, source) / { ...target, ...source }
Assign(target, source) ==
    [n \in DOMAIN target \cup DOMAIN source |->
        IF n \in DOMAIN source THEN source[n] ELSE target[n]]

\* Flatten type arrays: { type: ["string", "null"] } -> { type: "string" }
FlattenType(result) ==
    IF result.type.arr
    THEN LET nonNull == Without(result.type.names, "null")
         IN  [result EXCEPT !.type = TypeName(IF Len(nonNull) > 0 THEN nonNull[1] ELSE "string")]
    ELSE result

\* Convert $ref to plain object hint
RefHint(result) ==
    LET last == result.ref[Len(result.ref)]
        name == IF last # "" THEN last ELSE "object"
    IN  [EmptySchema EXCEPT
            !.type = TypeName("object"),
            !.description = IF result.description # <<>>
                            THEN result.description \o <<" (See: ", name, ")">>
                            ELSE <<"See: ", name>>]

RECURSIVE MergedProperties(_)
\* merged.properties after the loop over allOf
MergedProperties(subs) ==
    IF subs = <<>> THEN NoProperties
    ELSE LET init == MergedProperties(SubSeq(subs, 1, Len(subs) - 1))
             sub == subs[Len(subs)]
         IN  IF sub.hasProperties THEN Assign(init, sub.properties) ELSE init

RECURSIVE MergedRequired(_)
\* merged.required after the loop over allOf
MergedRequired(subs) ==
    IF subs = <<>> THEN <<>>
    ELSE IF Head(subs).hasRequired THEN Head(subs).required \o MergedRequired(Tail(subs))
    ELSE MergedRequired(Tail(subs))

\* Merge allOf into flat schema
MergeAllOf(result) ==
    IF result.allOf = <<>> THEN result
    ELSE LET subs == Objects(result.allOf)
             properties == MergedProperties(subs)
             required == MergedRequired(subs)
         IN  [result EXCEPT
                !.allOf = <<>>,
                !.hasProperties = @ \/ DOMAIN properties # {},
                !.properties = IF DOMAIN properties # {} THEN Assign(properties, @) ELSE @,
                !.hasRequired = @ \/ Len(required) > 0,
                !.required = IF Len(required) > 0 THEN Unique(required \o @) ELSE @]

\* const score = o => ...
Score(o) ==
    IF o.type = TypeName("object") \/ o.hasProperties THEN 3
    ELSE IF o.type = TypeName("array") \/ o.items # <<>> THEN 2
    ELSE IF HasType(o) /\ o.type # TypeName("null") THEN 1
    ELSE 0

RECURSIVE Best(_, _)
\* opts.reduce((a, b) => score(a) >= score(b) ? a : b, opts[0]) over the first n options
Best(opts, n) ==
    IF n = 0 THEN opts[1]
    ELSE LET a == Best(opts, n - 1)
             b == opts[n]
         IN  IF Score(a) >= Score(b) THEN a ELSE b

\* for (const [k, v] of Object.entries(best)) if (!(k in result) || k === 'type' || ...) result[k] = v
MergeBest(result, best) ==
    [result EXCEPT
        !.type = IF HasType(best) THEN best.type ELSE @,
        !.hasProperties = @ \/ best.hasProperties,
        !.properties = IF best.hasProperties THEN best.properties ELSE @,
        !.items = IF best.items # <<>> THEN best.items ELSE @,
        !.hasRequired = @ \/ best.hasRequired,
        !.required = IF ~result.hasRequired THEN best.required ELSE @,
        !.description = IF @ = <<>> THEN best.description ELSE @,
        !.ref = IF @ = <<>> THEN best.ref ELSE @,
        !.keywords = @ \cup best.keywords,
        !.allOf = IF @ = <<>> THEN best.allOf ELSE @,
        !.anyOf = IF @ = <<>> THEN best.anyOf ELSE @,
        !.oneOf = IF @ = <<>> THEN best.oneOf ELSE @]

\* Flatten anyOf/oneOf: pick best option
FlattenOptions(result, key) ==
    IF result[key] = <<>> THEN result
    ELSE LET opts == Objects(result[key])
             cleared == [result EXCEPT ![key] = <<>>]
         IN  IF opts = <<>> THEN cleared ELSE MergeBest(cleared, Best(opts, Len(opts)))

\* for (const k of STRIP) delete result[k]
Strip(result) ==
    [result EXCEPT
        !.keywords = @ \ STRIP,
        !.ref = IF "$ref" \in STRIP THEN <<>> ELSE @,
        !.allOf = IF "allOf" \in STRIP THEN <<>> ELSE @,
        !.anyOf = IF "anyOf" \in STRIP THEN <<>> ELSE @,
        !.oneOf = IF "oneOf" \in STRIP THEN <<>> ELSE @]

\* Validate required array only references existing properties
ValidateRequired(result) ==
    IF result.hasRequired /\ result.hasProperties
    THEN LET required == Within(result.required, DOMAIN result.properties)
         IN  [result EXCEPT !.required = required, !.hasRequired = Len(required) > 0]
    ELSE result

RECURSIVE sanitizeSchema(_)
sanitizeSchema(s) ==
    IF ~s.isObject THEN DefaultSchema
    ELSE LET typed == FlattenType(s)
         IN  IF typed.ref # <<>> THEN RefHint(typed)
             ELSE LET flat == Strip(FlattenOptions(FlattenOptions(MergeAllOf(typed), "anyOf"), "oneOf"))
                      nested == [flat EXCEPT
                                    !.properties = [n \in DOMAIN @ |-> sanitizeSchema(@[n])],
                                    !.items = [i \in DOMAIN @ |-> sanitizeSchema(@[i])]]
                  IN  ValidateRequired(nested)

\* ---- the schemas given to the sanitizer ----
\* options in an anyOf / oneOf / allOf list
MaxBranches == 2
\* nesting of the schemas
MaxDepth == 1

Leaves ==
    { [EmptySchema EXCEPT !.type = TypeArray(<<"string", "null">>)],
      [EmptySchema EXCEPT !.type = TypeName("string"), !.keywords = {"format", "enum"}],
      [EmptySchema EXCEPT !.ref = <<"#", "$defs", "Foo">>, !.description = <<"a foo">>],
      [EmptySchema EXCEPT !.type = TypeName("object"),
                          !.keywords = {"additionalProperties"},
                          !.hasProperties = TRUE,
                          !.properties = [n \in {"a"} |->
                                [EmptySchema EXCEPT !.type = TypeArray(<<"null">>),
                                                    !.keywords = {"default"}]],
                          !.hasRequired = TRUE,
                          !.required = <<"a", "b">>],
      NotAnObject }

RECURSIVE Lists(_, _)
\* the lists of at most n elements of S
Lists(S, n) ==
    IF n = 0 THEN {<<>>}
    ELSE LET shorter == Lists(S, n - 1)
         IN  shorter \cup {Append(l, x) : l \in shorter, x \in S}

RECURSIVE Schemas(_)
Schemas(depth) ==
    IF depth = 0 THEN Leaves
    ELSE LET sub == Schemas(depth - 1)
         IN  sub
             \cup {[EmptySchema EXCEPT ![key] = <<s>> \o rest] :
                        key \in {"allOf", "anyOf", "oneOf"}, s \in sub,
                        rest \in Lists(Leaves, MaxBranches - 1)}
             \cup {[EmptySchema EXCEPT !.type = TypeName("string"),
                                       !.description = <<"either">>,
                                       !.anyOf = <<s>>] : s \in sub}
             \cup {[EmptySchema EXCEPT !.type = TypeName("object"),
                                       !.keywords = {"$schema", "title"},
                                       !.hasProperties = TRUE,
                                       !.properties = [n \in {"p"} |-> s],
                                       !.hasRequired = TRUE,
                                       !.required = <<"p">>] : s \in sub}
             \cup {[EmptySchema EXCEPT !.type = TypeName("array"),
                                       !.keywords = {"minItems"},
                                       !.items = <<s>>] : s \in sub}

SanitizeInit ==
    /\ AdapterLocals
    /\ CliIdle
    /\ PoolIdle
    /\ schema \in Schemas(MaxDepth)
    /\ sanitized = <<>>
    /\ request = <<>>
    /\ payload = <<>>

\* sanitizeSchema(rawSchema)
Sanitize ==
    /\ sanitized = <<>>
    /\ schema # <<>>
    /\ sanitized' = <<sanitizeSchema(schema)>>
    /\ UNCHANGED <<schema, request, payload, adapterVars, randCount, codexVars, githubVars,
                   retryVars, managerVars, oauth, storeVars>>

\* the result is sanitized once more
SanitizeAgain ==
    /\ Len(sanitized) = 1
    /\ sanitized' = Append(sanitized, sanitizeSchema(sanitized[1]))
    /\ UNCHANGED <<schema, request, payload, adapterVars, randCount, codexVars, githubVars,
                   retryVars, managerVars, oauth, storeVars>>

SanitizeNext == Sanitize \/ SanitizeAgain

SpecSanitize == SanitizeInit /\ [][SanitizeNext]_vars

(***************************************************************************)
(* The Codex request converter: convertAnthropicToCodexRequest             *)
(*                                                                         *)
(* A string is the sequence of its pieces, '' the empty sequence; the      *)
(* output of JSON.stringify lists the keys and values of what it is given. *)
(***************************************************************************)
\* a block nested in the content array of a tool_result
Nested(type, text, cc) == [type |-> type, text |-> text, cache_control |-> cc]
\* the content of a tool_result: a string, an array of blocks, an object, or nothing
NoContent == [kind |-> "none", text |-> <<>>, blocks |-> <<>>]
StringContent(text) == [kind |-> "string", text |-> text, blocks |-> <<>>]
ArrayContent(blocks) == [kind |-> "array", text |-> <<>>, blocks |-> blocks]
ObjectContent(block) == [kind |-> "object", text |-> <<>>, blocks |-> <<block>>]

\* the blocks of a message
TextBlock(text, cc) ==
    [type |-> "text", text |-> text, id |-> NoId, name |-> "", tool_use_id |-> NoId,
     content |-> NoContent, cache_control |-> cc]
ThinkingBlock ==
    [type |-> "thinking", text |-> <<>>, id |-> NoId, name |-> "", tool_use_id |-> NoId,
     content |-> NoContent, cache_control |-> FALSE]
ToolUseBlock(id, name, cc) ==
    [type |-> "tool_use", text |-> <<>>, id |-> id, name |-> name, tool_use_id |-> NoId,
     content |-> NoContent, cache_control |-> cc]
ToolResultBlock(tool_use_id, content, cc) ==
    [type |-> "tool_result", text |-> <<>>, id |-> NoId, name |-> "", tool_use_id |-> tool_use_id,
     content |-> content, cache_control |-> cc]

\* a message whose content is a string, or an array of blocks
StringMessage(role, text) == [role |-> role, content |-> [isArray |-> FALSE, text |-> text, blocks |-> <<>>]]
BlockMessage(role, blocks) == [role |-> role, content |-> [isArray |-> TRUE, text |-> <<>>, blocks |-> blocks]]

\* the items of result.input and the entries of result.tools
MessageItem(role, parts) ==
    [type |-> "message", role |-> role, content |-> parts, call_id |-> NoId, name |-> "",
     arguments |-> <<>>, output |-> <<>>]
FunctionCall(call_id, name, arguments) ==
    [type |-> "function_call", role |-> "", content |-> <<>>, call_id |-> call_id, name |-> name,
     arguments |-> arguments, output |-> <<>>]
FunctionCallOutput(call_id, output) ==
    [type |-> "function_call_output", role |-> "", content |-> <<>>, call_id |-> call_id, name |-> "",
     arguments |-> <<>>, output |-> output]
WebSearchTool == [type |-> "web_search", name |-> "", parameters |-> EmptySchema]
FunctionTool(name, parameters) == [type |-> "function", name |-> name, parameters |-> parameters]

\* cleanCacheControl(messages)
cleanCacheControl(messages) ==
    [i \in DOMAIN messages |->
        IF ~messages[i].content.isArray THEN messages[i]
        ELSE [messages[i] EXCEPT !.content.blocks =
                    [j \in DOMAIN @ |-> [@[j] EXCEPT !.cache_control = FALSE]]]]

\* JSON.stringify of one block: its own keys, in order
StringifyBlock(b) ==
    <<"{", "type", b.type>>
    \o (IF b.type = "text" THEN <<"text">> \o b.text ELSE <<"source">>)
    \o (IF b.cache_control THEN <<"cache_control", "ephemeral">> ELSE <<>>)
    \o <<"}">>

RECURSIVE StringifyBlocks(_)
StringifyBlocks(blocks) ==
    IF blocks = <<>> THEN <<>>
    ELSE StringifyBlock(Head(blocks)) \o StringifyBlocks(Tail(blocks))

RECURSIVE JoinTexts(_)
\* content.filter(c => c && c.type === 'text').map(c => c.text || '').join('\n')
JoinTexts(blocks) ==
    IF blocks = <<>> THEN <<>>
    ELSE LET init == SubSeq(blocks, 1, Len(blocks) - 1)
             last == blocks[Len(blocks)]
             texts == JoinTexts(init)
         IN  IF last.type # "text" THEN texts
             ELSE IF \E i \in DOMAIN init : init[i].type = "text"
             THEN texts \o <<"\n">> \o last.text
             ELSE last.text

toolResultToOutput(content) ==
    IF content.kind = "string" THEN content.text
    ELSE IF content.kind = "array"
    THEN LET texts == JoinTexts(content.blocks)
         IN  IF texts # <<>> THEN texts ELSE <<"[">> \o StringifyBlocks(content.blocks) \o <<"]">>
    ELSE IF content.kind = "object" THEN StringifyBlocks(content.blocks)
    ELSE <<>>

\* block.name === 'WebSearch' || block.name === 'web_search'
IsWebSearch(name) == name \in {"WebSearch", "web_search"}

RECURSIVE WebSearchIdsOf(_)
\* the tool_use ids of the WebSearch calls of the messages
WebSearchIdsOf(messages) ==
    IF messages = <<>> THEN {}
    ELSE LET blocks == Head(messages).content.blocks
         IN  {blocks[j].id : j \in {k \in DOMAIN blocks :
                    blocks[k].type = "tool_use" /\ IsWebSearch(blocks[k].name)}}
             \cup WebSearchIdsOf(Tail(messages))

RECURSIVE TextParts(_, _)
\* the input_text / output_text parts of the blocks of one message
TextParts(role, blocks) ==
    IF blocks = <<>> THEN <<>>
    ELSE LET b == Head(blocks)
         IN  (IF b.type = "text" /\ b.text # <<>>
              THEN <<[type |-> IF role = "user" THEN "input_text" ELSE "output_text",
                      text |-> b.text]>>
              ELSE <<>>) \o TextParts(role, Tail(blocks))

\* crypto.randomBytes(8): the id drawn when a block has none
RandomCallId(n) == 200 + n

\* mutant: the tool_result of a WebSearch call is converted like any other
IsWebSearchResultNever(b, ids) == FALSE
\* webSearchToolUseIds.has(block.tool_use_id)
IsWebSearchResult(b, ids) == b.tool_use_id \in ids

RECURSIVE ToolItems(_, _, _)
\* the function_call / function_call_output items of the blocks of one message
ToolItems(blocks, ids, n) ==
    IF blocks = <<>> THEN <<>>
    ELSE LET b == Head(blocks)
             item == IF b.type = "tool_use" /\ ~IsWebSearch(b.name)
                     THEN <<FunctionCall(IF b.id # NoId THEN b.id ELSE RandomCallId(n), b.name,
                                         <<"{", "}">>)>>
                     ELSE IF b.type = "tool_result" /\ ~IsWebSearchResult(b, ids)
                     THEN <<FunctionCallOutput(IF b.tool_use_id # NoId THEN b.tool_use_id
                                               ELSE RandomCallId(n),
                                               toolResultToOutput(b.content))>>
                     ELSE <<>>
         IN  item \o ToolItems(Tail(blocks), ids, n + Len(item))

RECURSIVE InputItems(_, _, _)
\* result.input after the loop over the messages
InputItems(messages, ids, n) ==
    IF messages = <<>> THEN <<>>
    ELSE LET msg == Head(messages)
             parts == IF msg.content.isArray THEN TextParts(msg.role, msg.content.blocks)
                      ELSE IF msg.content.text # <<>>
                      THEN <<[type |-> IF msg.role = "user" THEN "input_text" ELSE "output_text",
                              text |-> msg.content.text]>>
                      ELSE <<>>
             text == IF msg.role \in {"user", "assistant"} /\ parts # <<>>
                     THEN <<MessageItem(msg.role, parts)>>
                     ELSE <<>>
             \* hasToolBlocks is false exactly when ToolItems has nothing to go through
             items == text \o ToolItems(msg.content.blocks, ids, n)
         IN  items \o InputItems(Tail(messages), ids, n + Len(items))

\* normalizeFunctionParameters(schema)
normalizeFunctionParameters(s) ==
    IF ~s.isObject
    THEN [EmptySchema EXCEPT !.type = TypeName("object"), !.hasProperties = TRUE]
    ELSE IF HasType(s) /\ s.type # TypeName("object")
    THEN [EmptySchema EXCEPT !.type = TypeName("object"),
                             !.hasProperties = TRUE,
                             !.properties = [n \in {"input"} |-> s],
                             !.hasRequired = TRUE,
                             !.required = <<"input">>]
    ELSE ValidateRequired([s EXCEPT !.type = TypeName("object"), !.hasProperties = TRUE])

\* const BLOCKED_TOOLS
BLOCKED_TOOLS == {"Task", "dispatch_agent", "computer", "browser"}

RECURSIVE FunctionTools(_)
\* the function entries of result.tools, one for each of otherTools
FunctionTools(tools) ==
    IF tools = <<>> THEN <<>>
    ELSE LET t == Head(tools)
         IN  (IF ~IsWebSearch(t.name) /\ t.name \notin BLOCKED_TOOLS
              THEN <<FunctionTool(t.name, normalizeFunctionParameters(sanitizeSchema(t.input_schema)))>>
              ELSE <<>>) \o FunctionTools(Tail(tools))

\* result.tools; <<>> also stands for a payload without tools
CodexTools(tools) ==
    (IF \E i \in DOMAIN tools : IsWebSearch(tools[i].name) THEN <<WebSearchTool>> ELSE <<>>)
    \o FunctionTools(tools)

\* result.instructions
Instructions(system) ==
    IF system.kind = "string" /\ system.text # <<>>
    THEN <<"CODEX_AGENT_PREFIX", "\n\n">> \o system.text
    ELSE IF system.kind = "array"
    THEN <<"CODEX_AGENT_PREFIX", "\n\n">> \o JoinTexts(system.blocks)
    ELSE <<"CODEX_AGENT_PREFIX">>

\* result.tool_choice ("": not set)
ToolChoice(tool_choice) ==
    IF tool_choice = "any" THEN "required" ELSE tool_choice

convertAnthropicToCodexRequest(anthropicRequest) ==
    LET messages == cleanCacheControl(anthropicRequest.messages)
    IN  [instructions |-> Instructions(anthropicRequest.system),
         input |-> InputItems(messages, WebSearchIdsOf(messages), 0),
         tools |-> CodexTools(anthropicRequest.tools),
         tool_choice |-> ToolChoice(anthropicRequest.tool_choice),
         stream |-> TRUE,
         store |-> FALSE]

\* ---- the requests given to the converter ----
\* messages of a request
MaxMessages == 2
\* tools declared by a request
MaxTools == 2

MessageTemplates ==
    { StringMessage("user", <<"hi">>),
      BlockMessage("assistant", <<TextBlock(<<"searching">>, TRUE),
                                  ToolUseBlock(1, "WebSearch", FALSE),
                                  ToolUseBlock(2, "Bash", TRUE)>>),
      BlockMessage("user", <<ToolResultBlock(1, StringContent(<<"found">>), FALSE),
                             ToolResultBlock(2, ArrayContent(<<Nested("text", <<"out">>, TRUE),
                                                               Nested("text", <<"err">>, FALSE)>>), TRUE)>>),
      BlockMessage("user", <<ToolResultBlock(2, ArrayContent(<<Nested("image", <<>>, TRUE)>>), FALSE),
                             TextBlock(<<"next">>, TRUE)>>),
      BlockMessage("assistant", <<ThinkingBlock, ToolUseBlock(3, "web_search", TRUE),
                                  ToolUseBlock(4, "Read", FALSE)>>),
      BlockMessage("user", <<ToolResultBlock(4, ArrayContent(<<Nested("text", <<>>, FALSE)>>), FALSE),
                             ToolResultBlock(3, ArrayContent(<<Nested("text", <<"hit">>, TRUE)>>), TRUE)>>) }

ToolTemplates ==
    { [name |-> "WebSearch", input_schema |-> [EmptySchema EXCEPT !.type = TypeName("object")]],
      [name |-> "web_search", input_schema |-> EmptySchema],
      [name |-> "Bash", input_schema |-> [EmptySchema EXCEPT
                                            !.type = TypeName("object"),
                                            !.keywords = {"additionalProperties", "$schema"},
                                            !.hasProperties = TRUE,
                                            !.properties = [n \in {"command"} |->
                                                [EmptySchema EXCEPT !.type = TypeName("string"),
                                                                    !.keywords = {"minLength"}]],
                                            !.hasRequired = TRUE,
                                            !.required = <<"command">>]],
      [name |-> "Read", input_schema |-> [EmptySchema EXCEPT !.type = TypeName("string")]],
      [name |-> "Task", input_schema |-> NotAnObject] }

SystemTemplates ==
    { [kind |-> "none", text |-> <<>>, blocks |-> <<>>],
      [kind |-> "array", text |-> <<>>, blocks |-> <<Nested("text", <<"be brief">>, TRUE)>>] }

ConvertInit ==
    /\ AdapterLocals
    /\ CliIdle
    /\ PoolIdle
    /\ schema = <<>>
    /\ sanitized = <<>>
    /\ \E messages \in Lists(MessageTemplates, MaxMessages),
          tools \in Lists(ToolTemplates, MaxTools),
          system \in SystemTemplates,
          tool_choice \in {"", "any"} :
            request = [messages |-> messages, tools |-> tools, system |-> system,
                       tool_choice |-> tool_choice]
    /\ payload = <<>>

\* convertAnthropicToCodexRequest(anthropicRequest)
Convert ==
    /\ request # <<>>
    /\ payload = <<>>
    /\ payload' = convertAnthropicToCodexRequest(request)
    /\ UNCHANGED <<schema, sanitized, request, adapterVars, randCount, codexVars, githubVars,
                   retryVars, managerVars, oauth, storeVars>>

ConvertNext == Convert

SpecConvert == ConvertInit /\ [][ConvertNext]_vars

(***************************************************************************)
(* convertAnthropicToOpenAIRequest: the messages of the Chat-Completions   *)
(* payload sent to GitHub Copilot                                          *)
(***************************************************************************)
\* the entries of outMessages; tool_calls holds the ids of the calls
OpenAIMessage(role, content, tool_calls) ==
    [role |-> role, content |-> content, tool_calls |-> tool_calls, tool_call_id |-> NoId]
ToolMessage(tool_call_id, content) ==
    [role |-> "tool", content |-> content, tool_calls |-> <<>>, tool_call_id |-> tool_call_id]

RECURSIVE extractTextBlocks(_)
\* extractTextBlocks(content).join('')
extractTextBlocks(blocks) ==
    IF blocks = <<>> THEN <<>>
    ELSE (IF Head(blocks).type = "text" THEN Head(blocks).text ELSE <<>>)
         \o extractTextBlocks(Tail(blocks))

RECURSIVE ToolCallsOf(_, _)
\* toolCalls: one entry per tool_use block, block.id || a random call id
ToolCallsOf(blocks, n) ==
    IF blocks = <<>> THEN <<>>
    ELSE LET b == Head(blocks)
         IN  IF b.type = "tool_use"
             THEN <<IF b.id # NoId THEN b.id ELSE RandomCallId(n)>> \o ToolCallsOf(Tail(blocks), n + 1)
             ELSE ToolCallsOf(Tail(blocks), n)

RECURSIVE ToolResultsOf(_, _)
\* toolResults: one role 'tool' message per tool_result block
ToolResultsOf(blocks, n) ==
    IF blocks = <<>> THEN <<>>
    ELSE LET b == Head(blocks)
         IN  IF b.type = "tool_result"
             THEN <<ToolMessage(IF b.tool_use_id # NoId THEN b.tool_use_id
                                ELSE IF b.id # NoId THEN b.id ELSE RandomCallId(n),
                                toolResultToOutput(b.content))>>
                  \o ToolResultsOf(Tail(blocks), n + 1)
             ELSE ToolResultsOf(Tail(blocks), n)

\* what one message of the request adds to outMessages: the message object,
\* then its tool results
OutMessagesOf(msg, n) ==
    LET blocks == IF msg.content.isArray THEN msg.content.blocks ELSE <<>>
        text == IF msg.content.isArray THEN extractTextBlocks(blocks) ELSE msg.content.text
    IN  IF msg.role \in {"user", "assistant"}
        THEN <<OpenAIMessage(msg.role, text, ToolCallsOf(blocks, n))>> \o ToolResultsOf(blocks, n)
        ELSE <<>>

RECURSIVE OutMessages(_, _)
OutMessages(messages, n) ==
    IF messages = <<>> THEN <<>>
    ELSE OutMessagesOf(Head(messages), n) \o OutMessages(Tail(messages), n + Len(Head(messages).content.blocks))

\* the system message, when the system prompt has text
SystemMessage(system) ==
    LET sysText == IF system.kind = "array" THEN JoinTexts(system.blocks) ELSE system.text
    IN  IF system.kind # "none" /\ sysText # <<>>
        THEN <<OpenAIMessage("system", sysText, <<>>)>> ELSE <<>>

convertAnthropicToOpenAIRequest(r) ==
    [messages |-> SystemMessage(r.system) \o OutMessages(r.messages, 0)]

\* convertAnthropicToOpenAIRequest(anthropicRequest)
ConvertOpenAI ==
    /\ request # <<>>
    /\ payload = <<>>
    /\ payload' = convertAnthropicToOpenAIRequest(request)
    /\ UNCHANGED <<schema, sanitized, request, adapterVars, randCount, codexVars, githubVars,
                   retryVars, managerVars, oauth, storeVars>>

OpenAINext == ConvertOpenAI

SpecOpenAI == ConvertInit /\ [][OpenAINext]_vars

(***************************************************************************)
(* The Codex accounts CLI: addAccount and its OAuth callback server        *)
(*                                                                         *)
(* The state generated for the flow and the state, code and error a        *)
(* request carries are small numbers and strings; 0 and "" stand for a     *)
(* parameter the request does not carry.                                   *)
(***************************************************************************)
\* requests that reach the callback server
MaxHits == 2

\* crypto.randomBytes(16).toString('hex')
GeneratedStates == {1, 2}
\* Object.fromEntries(url.searchParams.entries()) of a request to /auth/callback
CallbackParams == [code : {0, 7}, state : {0, 1, 2}, error : {"", "access_denied"}]

OAuthInit ==
    /\ AdapterLocals
    /\ FormatIdle
    /\ PoolIdle
    /\ StoreIdle
    /\ \E st \in GeneratedStates : oauth = [IdleFlow EXCEPT !.pc = "start", !.state = st]

OAuthUnchanged ==
    UNCHANGED <<adapterVars, randCount, codexVars, githubVars, retryVars, managerVars, formatVars,
                storeVars>>

\* await startCodexCallbackServer(): the server listens and addAccount runs on
\* to Promise.race([waitForCallback(), timeout]), or listen fails
StartServer ==
    /\ oauth.pc = "start"
    /\ \/ oauth' = [oauth EXCEPT !.pc = "waiting"]
       \/ oauth' = [oauth EXCEPT !.pc = "failed", !.error = "listen"]
    /\ OAuthUnchanged

\* a request for another path: 404
NotFoundRequest ==
    /\ oauth.pc = "waiting"
    /\ oauth.hits < MaxHits
    /\ oauth' = [oauth EXCEPT !.hits = @ + 1]
    /\ OAuthUnchanged

\* a request for /auth/callback: resolveCallback(params)
CallbackRequest ==
    /\ oauth.pc = "waiting"
    /\ oauth.hits < MaxHits
    /\ \E params \in CallbackParams :
            oauth' = [oauth EXCEPT !.hits = @ + 1, !.pc = "resolved", !.params = params]
    /\ OAuthUnchanged

\* setTimeout(() => reject(new Error('Timeout waiting for auth')), 300000)
AuthTimeout ==
    /\ oauth.pc = "waiting"
    /\ oauth' = [oauth EXCEPT !.pc = "failed", !.error = "timeout"]
    /\ OAuthUnchanged

\* if (params.state && params.state !== state)
StateRejected(params, state) == params.state # 0 /\ params.state # state

\* addAccount resumes with the parameters: close(), the three checks, and the
\* call of exchangeCodeForTokens
AfterCallback ==
    /\ oauth.pc = "resolved"
    /\ oauth' = IF oauth.params.error # ""
                THEN [oauth EXCEPT !.pc = "failed", !.error = oauth.params.error]
                ELSE IF oauth.params.code = 0
                THEN [oauth EXCEPT !.pc = "failed", !.error = "No authorization code received"]
                ELSE IF StateRejected(oauth.params, oauth.state)
                THEN [oauth EXCEPT !.pc = "failed", !.error = "Invalid state returned from OAuth"]
                ELSE [oauth EXCEPT !.pc = "exchanging", !.exchanges = @ + 1]
    /\ OAuthUnchanged

\* await exchangeCodeForTokens(...) settles: the account is saved, or the call threw
ExchangeSettles ==
    /\ oauth.pc = "exchanging"
    /\ \/ oauth' = [oauth EXCEPT !.pc = "saved"]
       \/ oauth' = [oauth EXCEPT !.pc = "failed", !.error = "Token exchange failed"]
    /\ OAuthUnchanged

OAuthNext ==
    \/ StartServer
    \/ NotFoundRequest
    \/ CallbackRequest
    \/ AuthTimeout
    \/ AfterCallback
    \/ ExchangeSettles

SpecOAuth == OAuthInit /\ [][OAuthNext]_vars

(***************************************************************************)
(* The account file: saveToDisk, initialize and the mutators that save     *)
(*                                                                         *)
(* The Cursor and the GitHub manager share this code.  In memory null is   *)
(* NoId, 0 or "" as elsewhere; in the file Null stands for a key that      *)
(* JSON.stringify left out or wrote as null.  One action is the code run   *)
(* between two awaits.                                                     *)
(***************************************************************************)
\* `cursor_${crypto.randomBytes(6).toString('hex')}`
FreshAccountId == 9

\* v || undefined, v || null on the way to the file
OrAbsent(v, none) == IF v = none THEN Null ELSE v
\* mutant: the value is taken as it is read
OrNullAsRead(v, none) == v
\* acc.x || null on the way back
OrNull(v, none) == IF v = Null THEN none ELSE v

\* the object saveToDisk writes for one account
SavedAccount(acc) ==
    [id |-> acc.id,
     email |-> OrAbsent(acc.email, NoId),
     lastUsed |-> OrAbsent(acc.lastUsed, 0),
     enabled |-> acc.enabled # FALSE,
     isInvalid |-> acc.isInvalid,
     invalidReason |-> IF acc.invalidReason = "" THEN "null" ELSE acc.invalidReason,
     cooldownUntil |-> OrAbsent(acc.cooldownUntil, 0)]
\* the config saveToDisk builds from the pool
Snapshot(accts, ai) ==
    [kind |-> "config", accounts |-> [i \in DOMAIN accts |-> SavedAccount(accts[i])],
     activeIndex |-> ai]

\* the account initialize builds from one entry of the file
LoadedAccount(f) ==
    [id |-> IF f.id # Null THEN f.id ELSE IF f.email # Null THEN f.email ELSE FreshAccountId,
     email |-> OrNull(f.email, NoId),
     enabled |-> f.enabled # FALSE,
     isInvalid |-> f.isInvalid,
     invalidReason |-> IF f.invalidReason = "null" THEN "" ELSE f.invalidReason,
     cooldownUntil |-> OrNull(f.cooldownUntil, 0),
     lastUsed |-> OrNull(f.lastUsed, 0)]
\* initialize() of a fresh manager on a file: the pool it holds afterwards
\* and whether the call raised
Initialize(f) ==
    IF f.kind = "config"
    THEN [accounts |-> [i \in DOMAIN f.accounts |-> LoadedAccount(f.accounts[i])],
          activeIndex |-> f.activeIndex, initialized |-> TRUE, raised |-> FALSE]
    ELSE \* readFile or JSON.parse threw: the catch
         [accounts |-> <<>>, activeIndex |-> 0, initialized |-> TRUE, raised |-> FALSE]

\* what the file holds, apart from how often it was read
Content(f) == [kind |-> f.kind, accounts |-> f.accounts, activeIndex |-> f.activeIndex]

\* a file written by hand or by the accounts CLI: one account, disabled, its
\* optional keys left out
EditedFile ==
    [kind |-> "config",
     accounts |-> <<[id |-> 1, email |-> Null, lastUsed |-> Null, enabled |-> FALSE,
                     isInvalid |-> FALSE, invalidReason |-> "null", cooldownUntil |-> Null]>>,
     activeIndex |-> 0, reads |-> 0]
UnparsableFile == [kind |-> "unparsable", accounts |-> <<>>, activeIndex |-> 0, reads |-> 0]

\* the account objects addAccount is called with
AddedAccounts == {[id |-> i, email |-> e] : i \in 1..2, e \in {NoId, 1, 2}}

\* what the store never touches
notStore == <<adapterVars, randCount, codexVars, githubVars, backend, adds, hinted, req,
              authFailed, copilotToken, copilotTokenExpiresAt, callers, issued, saveMkdir,
              saveWrite, granted, lastIdx, formatVars, oauth>>

\* the manager is constructed and initialize() has run on the file found
StoreInit ==
    /\ AdapterLocals
    /\ FormatIdle
    /\ oauth = IdleFlow
    /\ copilotToken = <<>>
    /\ copilotTokenExpiresAt = <<>>
    /\ callers = [c \in Callers |-> IdleCaller]
    /\ issued = 0
    /\ saveMkdir = 0
    /\ saveWrite = 0
    /\ granted = 0
    /\ lastIdx = 0
    /\ calls = 0
    /\ backend = "cursor"
    /\ adds = 0
    /\ hinted = 0
    /\ req = [r \in 1..MaxRequests |-> IdleRequest]
    /\ authFailed = {}
    /\ now = StartTime
    /\ ticks = 0
    /\ saves = <<>>
    /\ \E f \in {MissingFile, UnparsableFile, EditedFile} :
          /\ file = [f EXCEPT !.reads = 1]
          /\ accounts = Initialize(f).accounts
          /\ activeIndex = Initialize(f).activeIndex

\* saveToDisk() is called: it runs up to `await mkdir(dir)`
StartSave == Append(saves, [pc |-> "mkdir", config |-> <<>>])

\* selectAccount() returns an account
StoreSelectAccount ==
    /\ calls + ticks < MaxCalls
    /\ LET sel == SelectAccount(accounts, activeIndex, now)
       IN  /\ sel.idx # 0
           /\ accounts' = sel.accounts
           /\ activeIndex' = sel.activeIndex
    /\ saves' = StartSave
    /\ calls' = calls + 1
    /\ UNCHANGED <<now, ticks, file, notStore>>

\* markRateLimited(accountId, DEFAULT_COOLDOWN_MS)
StoreMarkRateLimited ==
    /\ calls + ticks < MaxCalls
    /\ \E i \in DOMAIN accounts :
          accounts' = MarkRateLimited(accounts, accounts[i].id, DEFAULT_COOLDOWN_MS, now)
    /\ saves' = StartSave
    /\ calls' = calls + 1
    /\ UNCHANGED <<activeIndex, now, ticks, file, notStore>>

\* markInvalid(accountId, 'Unauthorized')
StoreMarkInvalid ==
    /\ calls + ticks < MaxCalls
    /\ \E i \in DOMAIN accounts :
          accounts' = MarkInvalid(accounts, accounts[i].id, "Unauthorized")
    /\ saves' = StartSave
    /\ calls' = calls + 1
    /\ UNCHANGED <<activeIndex, now, ticks, file, notStore>>

\* addAccount(account) up to its `await this.saveToDisk()`
StoreAddAccount ==
    /\ calls + ticks < MaxCalls
    /\ \E account \in AddedAccounts :
          /\ FindExisting(accounts, account) # 0 \/ Len(accounts) < MaxAccounts
          /\ accounts' = AddAccountTo(accounts, account)
    /\ saves' = StartSave
    /\ calls' = calls + 1
    /\ UNCHANGED <<activeIndex, now, ticks, file, notStore>>

\* the k-th element of a sequence taken out
RemoveAt(seq, k) == [i \in 1..(Len(seq) - 1) |-> IF i < k THEN seq[i] ELSE seq[i + 1]]

\* `await mkdir(dir, { recursive: true })` of one save resolves: the config is
\* built from the pool as it is now and writeFile is called
StoreMkdirSettles ==
    \E k \in DOMAIN saves :
        /\ saves[k].pc = "mkdir"
        /\ saves' = [saves EXCEPT ![k] = [pc |-> "write",
                                          config |-> Snapshot(accounts, activeIndex)]]
        /\ UNCHANGED <<accounts, activeIndex, now, ticks, calls, file, notStore>>

\* `await writeFile(path, JSON.stringify(config))` of one save resolves; the
\* writes in flight finish in any order
StoreWriteFileSettles ==
    \E k \in DOMAIN saves :
        /\ saves[k].pc = "write"
        /\ file' = [kind |-> "config", accounts |-> saves[k].config.accounts,
                    activeIndex |-> saves[k].config.activeIndex, reads |-> 0]
        /\ saves' = RemoveAt(saves, k)
        /\ UNCHANGED <<accounts, activeIndex, now, ticks, calls, notStore>>

\* the process is restarted while no save is under way: a fresh manager
\* runs initialize() on the file
StoreRestart ==
    /\ saves = <<>>
    /\ file.reads = 0
    /\ accounts' = Initialize(file).accounts
    /\ activeIndex' = Initialize(file).activeIndex
    /\ file' = [file EXCEPT !.reads = 1]
    /\ UNCHANGED <<saves, now, ticks, calls, notStore>>

\* time passes between two calls
StoreTick ==
    /\ calls + ticks < MaxCalls
    /\ \E d \in TickSteps : now' = now + d
    /\ ticks' = ticks + 1
    /\ UNCHANGED <<accounts, activeIndex, calls, saves, file, notStore>>

StoreNext ==
    \/ StoreSelectAccount
    \/ StoreMarkRateLimited
    \/ StoreMarkInvalid
    \/ StoreAddAccount
    \/ StoreMkdirSettles
    \/ StoreWriteFileSettles
    \/ StoreRestart
    \/ StoreTick

SpecStore == StoreInit /\ [][StoreNext]_vars

\* a manager that found no file and is only ever asked to add accounts
EmptyPoolInit ==
    /\ StoreInit
    /\ file = [MissingFile EXCEPT !.reads = 1]
AddNext ==
    \/ StoreAddAccount
    \/ StoreMkdirSettles
    \/ StoreWriteFileSettles
SpecAdd == EmptyPoolInit /\ [][AddNext]_vars

(***************************************************************************)
(* Reading the emitted stream                                              *)
(***************************************************************************)
Positions(type) == {i \in DOMAIN out : out[i].type = type}
BlockStarts == Positions("content_block_start")
ToolStarts == {i \in BlockStarts : out[i].btype = "tool_use"}
StopsOf(idx) == {j \in Positions("content_block_stop") : out[j].index = idx}
BlockEvents == {"content_block_start", "content_block_delta", "content_block_stop"}

\* the indices of the content_block_start events among the first n events, in emission order
RECURSIVE StartIndices(_)
StartIndices(n) ==
    IF n = 0 THEN <<>>
    ELSE IF out[n].type = "content_block_start"
         THEN Append(StartIndices(n - 1), out[n].index)
         ELSE StartIndices(n - 1)

\* the partial_json fragments emitted under block idx among the first n events, concatenated
RECURSIVE PartialJsonOf(_, _)
PartialJsonOf(idx, n) ==
    IF n = 0 THEN <<>>
    ELSE IF out[n].type = "content_block_delta" /\ out[n].btype = "input_json_delta"
            /\ out[n].index = idx
         THEN PartialJsonOf(idx, n - 1) \o out[n].data
         ELSE PartialJsonOf(idx, n - 1)

\* JSON.parse on a token sequence of braces: nesting depth after the first n tokens
RECURSIVE BraceDepth(_, _)
BraceDepth(s, n) ==
    IF n = 0 THEN 0
    ELSE BraceDepth(s, n - 1) + (IF s[n] = "{" THEN 1 ELSE -1)
\* s parses as one JSON object
ParsesAsObject(s) ==
    /\ s # <<>>
    /\ BraceDepth(s, Len(s)) = 0
    /\ \A n \in 1..(Len(s) - 1) : BraceDepth(s, n) > 0

(***************************************************************************)
(* Claims about the Codex streaming adapter (SpecCodex)                    *)
(***************************************************************************)

\* C1: when the Codex stream has ended, every emitted content_block_start(i) is
\* followed by exactly one content_block_stop(i), emitted before message_delta.
C1_EveryStartHasOneStop ==
    phase = "done" =>
        \A i \in BlockStarts :
            /\ Cardinality(StopsOf(out[i].index)) = 1
            /\ \A j \in StopsOf(out[i].index) :
                 /\ j > i
                 /\ \A d \in Positions("message_delta") : j < d

\* C2: the stop_reason of message_delta is 'tool_use' exactly when a tool_use
\* content_block_start was emitted, and 'end_turn' otherwise.
C2_StopReasonLaw ==
    \A d \in Positions("message_delta") :
        /\ out[d].stop \in {"tool_use", "end_turn"}
        /\ out[d].stop = "tool_use" <=> ToolStarts # {}
C2_Witness ==
    /\ phase = "done"
    /\ ToolStarts # {}
    /\ \E d \in Positions("message_delta") : out[d].stop = "tool_use"

\* C4: the indices of the content_block_start events, in emission order, are
\* 0,1,..,n-1, and every content_block_delta and content_block_stop carries the
\* index of a block started before it.
C4_DenseIndices ==
    /\ StartIndices(Len(out)) = [n \in 1..Cardinality(BlockStarts) |-> n - 1]
    /\ \A j \in Positions("content_block_delta") \cup Positions("content_block_stop") :
         \E i \in BlockStarts : i < j /\ out[i].index = out[j].index
C4_Witness ==
    /\ phase = "done"
    /\ Cardinality(BlockStarts) >= 3
    /\ \E j \in Positions("content_block_delta") : out[j].index = 2

\* C5: the stream is message_start (once, first), then only content_block
\* events, then message_delta (once), then message_stop (once, last).
C5_StreamShape ==
    /\ out # <<>> => out[1].type = "message_start"
    /\ Cardinality(Positions("message_start")) <= 1
    /\ phase = "reading" => \A i \in DOMAIN out : i > 1 => out[i].type \in BlockEvents
    /\ phase = "done" =>
         /\ Len(out) >= 3
         /\ out[Len(out)].type = "message_stop"
         /\ out[Len(out) - 1].type = "message_delta"
         /\ \A i \in 2..(Len(out) - 2) : out[i].type \in BlockEvents
C5_Witness ==
    /\ phase = "done"
    /\ Len(out) >= 8
    /\ ToolStarts # {}
    /\ \E i \in BlockStarts : out[i].btype = "text"

\* C6: when the argument deltas the backend sent for each function_call item
\* followed the item's announcement and concatenate to a JSON object (or the
\* item got none), with or without item_id, the input_json_delta
\* fragments emitted under each tool_use block concatenate to exactly the
\* arguments of the item the block was started for: a parseable JSON object or
\* the empty string, nothing lost, duplicated or put under another block.
C6_ArgumentsReconstructed ==
    (/\ phase = "done"
     /\ orderly
     /\ \A k \in Items : argsSent[k] \in {0, Len(ItemArgs(k))}) =>
        \A i \in ToolStarts :
            LET json == PartialJsonOf(out[i].index, Len(out))
                owner == blockOwner[out[i].index + 1]
            IN  /\ json = <<>> \/ ParsesAsObject(json)
                /\ json = SubSeq(ItemArgs(owner), 1, argsSent[owner])

(***************************************************************************)
(* Claims about the GitHub Copilot streaming adapter (SpecGithub)          *)
(***************************************************************************)

\* C3: in the GitHub Copilot adapter the stop_reason of message_delta is
\* 'tool_use' exactly when a tool_use content_block_start was emitted; a
\* finish_reason 'tool_calls' on a text-only stream does not yield 'tool_use'.
C3_GithubStopReasonLaw ==
    \A d \in Positions("message_delta") :
        /\ out[d].stop \in {"tool_use", "end_turn"}
        /\ out[d].stop = "tool_use" <=> ToolStarts # {}

(***************************************************************************)
(* Claims about the account pool and the retry loops (SpecRetry)           *)
(***************************************************************************)

\* C7 as stated: a single request on a pool of two available accounts A and B,
\* where A is answered 429 and B 200, completes with B's output after at most
\* 2 backend calls, and at completion A's cooldownUntil is later than now.
C7_CooldownLaterThanNow ==
    \A r \in Requests : \A A \in DOMAIN accounts : \A B \in DOMAIN accounts \ {A} :
        (/\ req[r].pc = "done"
         /\ \A q \in Requests \ {r} : req[q].pc = "idle"
         /\ Len(accounts) = 2 /\ req[r].startCount = 2 /\ req[r].startAvail = {A, B}
         /\ req[r].answered429 \subseteq {A} /\ req[r].answered200 \subseteq {B}
         /\ ~req[r].otherFailure) =>
            /\ req[r].answered200 = {B}
            /\ req[r].calls <= 2
            /\ accounts[A].cooldownUntil > now

\* C7: under the same conditions the request completes with B's output after
\* at most 2 backend calls; when A was called, A's cooldownUntil is later than
\* the time the request started, and when the cursor pointed at B first, A is
\* not called and its cooldownUntil stays null.
C7_FailoverToB ==
    \A r \in Requests : \A A \in DOMAIN accounts : \A B \in DOMAIN accounts \ {A} :
        (/\ req[r].pc = "done"
         /\ \A q \in Requests \ {r} : req[q].pc = "idle"
         /\ Len(accounts) = 2 /\ req[r].startCount = 2 /\ req[r].startAvail = {A, B}
         /\ req[r].answered429 \subseteq {A} /\ req[r].answered200 \subseteq {B}
         /\ ~req[r].otherFailure) =>
            /\ req[r].answered200 = {B}
            /\ req[r].calls <= 2
            /\ req[r].answered429 = {A} =>
                    accounts[A].cooldownUntil > req[r].startedAt
            /\ req[r].answered429 = {} =>
                    req[r].calls = 1 /\ accounts[A].cooldownUntil = 0

\* a request that was answered 429 by A, then 200 by B, and has completed
C7_Witness ==
    \E r \in Requests : \E A \in DOMAIN accounts : \E B \in DOMAIN accounts \ {A} :
        /\ req[r].pc = "done"
        /\ Len(accounts) = 2 /\ req[r].startCount = 2 /\ req[r].startAvail = {A, B}
        /\ req[r].answered429 = {A} /\ req[r].answered200 = {B}
        /\ ~req[r].otherFailure
        /\ req[r].calls = 2

C10_CodexCooldown ==
    [][\A r \in Requests :
         (/\ backend = "codex"
          /\ req[r].pc = "fetch"
          /\ req'[r].attempt = req[r].attempt + 1
          /\ req'[r].hint # <<>>) =>
            LET header == req'[r].hint[1]
                body == req'[r].hint[2]
                cooldown == req'[r].retryMs
            IN  /\ cooldown =
                     (IF header # Null /\ header # NaN /\ header > 0
                      THEN header * 1000
                      ELSE IF body.parses /\ body.resets_in_seconds > 0
                      THEN body.resets_in_seconds * 1000
                      ELSE IF body.parses /\ body.resets_at # 0
                              /\ body.resets_at * 1000 > now
                      THEN body.resets_at * 1000 - now
                      ELSE DEFAULT_COOLDOWN_MS)
                /\ header = 42 => cooldown >= 42000
                /\ (header = Null /\ body.parses /\ body.resets_in_seconds = 30) =>
                      cooldown >= 30000
                /\ (header = Null /\ ~body.parses) => cooldown = DEFAULT_COOLDOWN_MS]_vars

\* a Codex account was just answered 429 with Retry-After: 42 and a body that
\* says resets_in_seconds 30
C10_Witness ==
    \E r \in Requests : \E a \in DOMAIN accounts :
        /\ backend = "codex"
        /\ req[r].hint # <<>>
        /\ req[r].hint[1] = 42 /\ req[r].hint[2].resets_in_seconds = 30
        /\ a \in req[r].answered429
        /\ accounts[a].cooldownUntil = now + 42000

\* C11: in the GitHub and Cursor retry loops a 429 that carries a reset hint
\* (Retry-After in seconds, or resets_in_seconds in the body) puts the
\* account in cooldown for at least the hinted time, and the default
\* cooldown is used only when the reply carries no hint.
C11_HintHonoured ==
    [][\A r \in Requests :
         (/\ backend \in {"github", "cursor"}
          /\ req[r].pc = "fetch"
          /\ req'[r].hint # <<>>) =>
            LET header == req'[r].hint[1]
                body == req'[r].hint[2]
                hintMs == IF header # Null /\ header # NaN /\ header > 0
                          THEN header * 1000
                          ELSE IF body.parses /\ body.resets_in_seconds > 0
                          THEN body.resets_in_seconds * 1000
                          ELSE 0
                a == req[r].account
            IN  hintMs > 0 =>
                    /\ req'[r].retryMs >= hintMs
                    /\ req'[r].retryMs # DEFAULT_COOLDOWN_MS
                    /\ accounts'[a].cooldownUntil >= now + hintMs
                    /\ accounts'[a].cooldownUntil # now + DEFAULT_COOLDOWN_MS]_vars

\* C12: in the Codex retry loop, when no account is selectable and waitMs,
\* the shortest remaining cooldown of the pool, is above 60000 ms the request fails at once
\* with RESOURCE_EXHAUSTED, without sleeping and without a backend call,
\* and the minutes it reports are that wait divided by 60000, rounded up
\* (2 when both accounts cool for 120 s); when the wait is positive and at
\* most 60000 ms the loop sleeps for the wait plus 500 ms and selects again.
C12_CodexFailFast ==
    [][\A r \in Requests :
         (/\ backend = "codex"
          /\ req'[r] # req[r]
          /\ req'[r].attempt < req'[r].maxAttempts
          /\ req'[r].pc \in {"sleep", "failed"}
          /\ req'[r].pc = "failed" => req'[r].error \in {"exhausted", "noaccounts"}) =>
            LET open == {a \in DOMAIN accounts' :
                            /\ accounts'[a].enabled /\ ~accounts'[a].isInvalid
                            /\ accounts'[a].cooldownUntil = 0 \/ accounts'[a].cooldownUntil <= now'}
                waits == {accounts'[a].cooldownUntil - now' : a \in
                            {b \in DOMAIN accounts' : accounts'[b].cooldownUntil > now'}}
                shortest == CHOOSE w \in waits : \A v \in waits : w <= v
            IN  /\ open = {}
                /\ req'[r].calls = req[r].calls
                /\ (waits # {} /\ shortest > 60000) =>
                        /\ req'[r].pc = "failed" /\ req'[r].error = "exhausted"
                        /\ req'[r].wakeAt = 0
                        /\ (req'[r].resetMins - 1) * 60000 < shortest
                        /\ shortest <= req'[r].resetMins * 60000
                /\ (waits # {} /\ shortest <= 60000) =>
                        /\ req'[r].pc = "sleep"
                        /\ req'[r].wakeAt = now' + shortest + 500
                /\ waits = {} => (req'[r].pc = "failed" /\ req'[r].error = "noaccounts")]_vars

\* both Codex accounts cool for 120 s when the request starts: it fails at
\* once, reporting 2 minutes, and no account was called
C12_Witness ==
    \E r \in Requests :
        /\ backend = "codex"
        /\ req[r].pc = "failed" /\ req[r].error = "exhausted"
        /\ req[r].resetMins = 2 /\ req[r].calls = 0 /\ req[r].selects = 0
        /\ Len(accounts) = 2
        /\ \A a \in DOMAIN accounts :
               /\ accounts[a].enabled /\ ~accounts[a].isInvalid
               /\ accounts[a].cooldownUntil = req[r].startedAt + 120000

\* C13: the GitHub and Cursor retry loops never sleep either when no
\* account is selectable and waitMs is above 60000 ms: they abort with
\* RESOURCE_EXHAUSTED.
C13_NoLongSleep ==
    [][\A r \in Requests :
         (/\ backend \in {"github", "cursor"}
          /\ req'[r] # req[r]
          /\ req'[r].pc = "sleep") =>
            LET waits == {accounts'[a].cooldownUntil - now' : a \in
                            {b \in DOMAIN accounts' : accounts'[b].cooldownUntil > now'}}
            IN  /\ \A w \in waits : w <= 60000
                /\ req'[r].wakeAt <= now' + 60000 + 500]_vars

\* C14: of N selectAccount calls made at one instant on a pool whose
\* accounts hold K <= N tokens in total, exactly K return an account and the
\* others return none with waitMs > 0; two concurrent selectors never both
\* succeed on the last token.  Stated for a pool of one account that holds
\* the last token (K = 1): of the calls made at one instant at most one
\* returns the account.
C14_LastTokenGrantedOnce == Len(accounts) = 1 => granted <= 1

\* C15: selectAccount returns an account only if it is enabled, not invalid
\* and its cooldownUntil is null or not after the time of the call, and it
\* returns some account whenever the pool holds one that meets these
\* conditions; an account whose cooldown has passed is returned again
\* without any operation on it in between.
C15_SelectsExactlyTheAvailable ==
    [][(/\ calls' = calls + 1
        /\ now' = now
        /\ callers' = callers
        /\ \/ granted' = granted + 1
           \/ UNCHANGED <<accounts, saveMkdir>>) =>
            LET Meets(a) == /\ accounts[a].enabled
                            /\ ~accounts[a].isInvalid
                            /\ accounts[a].cooldownUntil = 0 \/ accounts[a].cooldownUntil <= now
            IN  /\ lastIdx' # 0 => (lastIdx' \in DOMAIN accounts /\ Meets(lastIdx'))
                /\ (\E a \in DOMAIN accounts : Meets(a)) => lastIdx' # 0
                /\ lastIdx' # 0 <=> granted' = granted + 1]_vars

\* an account whose cooldown was set and has passed is returned, the only
\* step since the cooldown ran out being the clock's
C15_Witness ==
    /\ lastIdx # 0
    /\ accounts[lastIdx].cooldownUntil # 0
    /\ accounts[lastIdx].cooldownUntil <= now
    /\ accounts[lastIdx].cooldownUntil > StartTime
    /\ accounts[lastIdx].lastUsed = now
    /\ granted = 1
    /\ calls = 2

\* C16: when two or more concurrent requests ask for the Copilot token of
\* the same account while the token is missing or expires within 5 minutes,
\* one refresh call is made to the token endpoint: no two calls of
\* getCopilotToken for one account are waiting for the endpoint at once.
C16_OneRefreshPerAccount ==
    \A c, d \in Callers :
        (c # d /\ callers[c].pc = "refresh" /\ callers[d].pc = "refresh")
            => callers[c].account # callers[d].account

\* C17: at most one write of the account file is in flight at any time,
\* whatever the interleaving of selectAccount, markRateLimited, markInvalid
\* and token refresh.
C17_OneWriteInFlight == WritesInFlight <= 1

\* C18: a saveToDisk failure while the refreshed token of the selected
\* account is stored never makes the request fail and never consumes one
\* of its attempts (as it does not in selectAccount, markRateLimited and
\* markInvalid, which swallow the rejection).
C18_SaveFailureHarmless ==
    [][\A r \in Requests :
         (/\ backend = "github"
          /\ req[r].pc = "token"
          /\ req'[r] # req[r]
          /\ req'[r].tokenError = "save") =>
            /\ req'[r].pc # "failed"
            /\ req'[r].attempt = req[r].attempt]_vars

\* C19: when the token of the selected account cannot be obtained (the
\* refresh call answers non-2xx or returns no token) the account is marked
\* invalid, so that no later selectAccount returns it until it is re-added.
C19_TokenFailureMarksInvalid ==
    [][\A r \in Requests :
         (/\ backend = "github"
          /\ req[r].pc = "token"
          /\ req'[r] # req[r]
          /\ req'[r].tokenError = "refresh") =>
            /\ accounts'[req[r].account].isInvalid
            /\ req'[r].account # req[r].account]_vars

\* C20 as stated: a request whose every backend response was 401 or 403
\* fails only after each account that was available when it started has
\* been tried and marked invalid.
C20_FailsAfterAllInvalid ==
    \A r \in Requests :
        (/\ req[r].pc = "failed"
         /\ req[r].answered200 = {} /\ req[r].answered429 = {}
         /\ ~req[r].threw) =>
            \A a \in req[r].startAvail : \E q \in Requests : a \in req[q].answered401

\* C20: a request whose every backend response was 401 or 403 fails only
\* after each account that was available when it started has been tried
\* and marked invalid, or was put in cooldown by a 429 answered to another
\* request; at the moment it fails no account that was available at its
\* start is both untried and available.
C20_FailsAfterAllTried ==
    [][\A r \in Requests :
         (/\ req[r].pc # "failed" /\ req'[r].pc = "failed"
          /\ req'[r].answered200 = {} /\ req'[r].answered429 = {}
          /\ ~req'[r].threw) =>
            \A a \in req'[r].startAvail :
                /\ \/ \E q \in Requests : a \in req'[q].answered401
                   \/ \E q \in Requests \ {r} : a \in req'[q].answered429
                /\ \/ a \in req'[r].answered401
                   \/ accounts'[a].isInvalid
                   \/ accounts'[a].cooldownUntil > now']_vars

\* the request was served 401 by both accounts of its pool, which were
\* available when it started, and failed with both marked invalid
C20_Witness ==
    \E r \in Requests :
        /\ req[r].pc = "failed"
        /\ req[r].answered200 = {} /\ req[r].answered429 = {} /\ ~req[r].threw
        /\ req[r].startAvail = {1, 2}
        /\ req[r].answered401 = {1, 2}
        /\ req[r].calls = 2
        /\ \A a \in DOMAIN accounts : accounts[a].isInvalid

\* C21: when the Codex stream ends without any non-empty text delta and
\* without any function_call item, the adapter does not raise and has emitted
\* exactly message_start, content_block_start(0, text),
\* content_block_stop(0), message_delta(end_turn), message_stop.
C21_EmptyStreamSynthesized ==
    [][(/\ phase = "reading" /\ phase' # "reading"
        /\ textSent = 0
        /\ \A k \in Items : ~itemAdded[k]) =>
            /\ phase' = "done"
            /\ Len(out') = 5
            /\ out'[1].type = "message_start"
            /\ out'[2].type = "content_block_start" /\ out'[2].index = 0 /\ out'[2].btype = "text"
            /\ out'[3].type = "content_block_stop" /\ out'[3].index = 0
            /\ out'[4].type = "message_delta" /\ out'[4].stop = "end_turn"
            /\ out'[5].type = "message_stop"]_vars

\* the stream carried an empty text delta, a web_search_call item and the
\* usage, and nothing else, before it ended
C21_Witness ==
    /\ phase = "done"
    /\ textSent = 0
    /\ \A k \in Items : ~itemAdded[k]
    /\ consumed = MaxEvents
    /\ webSearchItemIds # {}
    /\ outputTokens = 5
    /\ Len(out) = 5

\* C22: the GitHub Copilot streaming adapter (and the Cursor one, which
\* ends in the same way) synthesizes the minimal stream when a 200 response
\* carries no content, instead of raising: message_start,
\* content_block_start(0, text), content_block_stop(0),
\* message_delta(end_turn), message_stop.
C22_EmptyResponseSynthesized ==
    [][(/\ phase = "reading" /\ phase' # "reading"
        /\ out = <<>>) =>
            /\ phase' = "done"
            /\ Len(out') = 5
            /\ out'[1].type = "message_start"
            /\ out'[2].type = "content_block_start" /\ out'[2].index = 0 /\ out'[2].btype = "text"
            /\ out'[3].type = "content_block_stop" /\ out'[3].index = 0
            /\ out'[4].type = "message_delta" /\ out'[4].stop = "end_turn"
            /\ out'[5].type = "message_stop"]_vars

\* C23: when the body of a Cursor 200 response holds an embedded error payload,
\* an authentication error leaves the account used marked invalid and a
\* rate-limit error leaves it rate limited, before the loop moves on.
C23_EmbeddedErrorMarksAccount ==
    [][\A r \in Requests :
        (backend = "cursor" /\ req[r].pc = "stream" /\ req'[r].pc # "stream") =>
            /\ req'[r].embedded = "auth" => accounts'[req[r].account].isInvalid
            /\ req'[r].embedded = "rate" =>
                    accounts'[req[r].account].rateLimitedUntil > now]_vars

(***************************************************************************)
(* Reading a schema                                                        *)
(***************************************************************************)
RECURSIVE Disallowed(_)
\* some schema object of s, at any depth, carries a keyword the backend rejects
Disallowed(s) ==
    \/ s.keywords \cap STRIP # {}
    \/ s.ref # <<>>
    \/ s.allOf # <<>> \/ s.anyOf # <<>> \/ s.oneOf # <<>>
    \/ s.type.arr
    \/ \E n \in DOMAIN s.properties : Disallowed(s.properties[n])
    \/ \E i \in DOMAIN s.items : Disallowed(s.items[i])

\* C25: sanitizeSchema is idempotent: sanitizing the result of sanitizeSchema(s)
\* once more returns that result unchanged, for schemas with anyOf / oneOf /
\* allOf branches whose type is an array included.
C25_SanitizeIdempotent == Len(sanitized) = 2 => sanitized[2] = sanitized[1]

\* C26: no schema object at any depth of sanitizeSchema(s) carries a disallowed
\* keyword or an array-valued type.
C26_NoDisallowedKeyword == Len(sanitized) >= 1 => ~Disallowed(sanitized[1])

(***************************************************************************)
(* Reading a request and its payload                                       *)
(***************************************************************************)
Range(seq) == {seq[i] : i \in DOMAIN seq}

\* some string of the payload holds a cache_control field
MentionsCacheControl(p) ==
    \/ "cache_control" \in Range(p.instructions)
    \/ \E i \in DOMAIN p.input :
        \/ "cache_control" \in Range(p.input[i].output)
        \/ "cache_control" \in Range(p.input[i].arguments)
        \/ \E j \in DOMAIN p.input[i].content :
                "cache_control" \in Range(p.input[i].content[j].text)

RECURSIVE ToolBlockTrace(_, _)
\* the tool_use and tool_result blocks of the messages that do not belong to a
\* WebSearch call, in order, each as the item it is converted to
ToolBlockTrace(blocks, ids) ==
    IF blocks = <<>> THEN <<>>
    ELSE LET b == Head(blocks)
         IN  (IF b.type = "tool_use" /\ ~IsWebSearch(b.name)
              THEN <<<<"function_call", b.id>>>>
              ELSE IF b.type = "tool_result" /\ b.tool_use_id \notin ids
              THEN <<<<"function_call_output", b.tool_use_id>>>>
              ELSE <<>>) \o ToolBlockTrace(Tail(blocks), ids)

RECURSIVE AllBlocks(_)
AllBlocks(messages) ==
    IF messages = <<>> THEN <<>>
    ELSE Head(messages).content.blocks \o AllBlocks(Tail(messages))

RECURSIVE ToolItemTrace(_)
\* the function_call and function_call_output items of result.input, in order
ToolItemTrace(input) ==
    IF input = <<>> THEN <<>>
    ELSE (IF Head(input).type \in {"function_call", "function_call_output"}
          THEN <<<<Head(input).type, Head(input).call_id>>>>
          ELSE <<>>) \o ToolItemTrace(Tail(input))

\* the request declares WebSearch and its messages hold a WebSearch tool_use
UsesWebSearch(rq) ==
    /\ \E i \in DOMAIN rq.tools : IsWebSearch(rq.tools[i].name)
    /\ WebSearchIdsOf(rq.messages) # {}

\* C24: the payload built by convertAnthropicToCodexRequest holds no
\* cache_control field of any input content block, the blocks nested in the
\* content array of a tool_result, which are serialized into the output
\* string of the function_call_output, included.
C24_NoCacheControl == payload # <<>> => ~MentionsCacheControl(payload)

\* C27: when the request declares WebSearch (or web_search) and its messages
\* hold tool_use blocks naming it, the payload's tools hold exactly one
\* {type: web_search} entry and no function entry named after it, input holds
\* neither a function_call for those tool_use blocks nor a
\* function_call_output for their tool_result blocks, and every other
\* tool_use / tool_result is kept, in order.
C27_WebSearchRewired ==
    (payload # <<>> /\ UsesWebSearch(request)) =>
        LET ids == WebSearchIdsOf(request.messages)
        IN  /\ Cardinality({i \in DOMAIN payload.tools : payload.tools[i].type = "web_search"}) = 1
            /\ \A i \in DOMAIN payload.tools :
                    payload.tools[i].type = "function" => ~IsWebSearch(payload.tools[i].name)
            /\ \A i \in DOMAIN payload.input :
                    /\ payload.input[i].type = "function_call" => ~IsWebSearch(payload.input[i].name)
                    /\ payload.input[i].type \in {"function_call", "function_call_output"} =>
                            payload.input[i].call_id \notin ids
            /\ ToolItemTrace(payload.input) = ToolBlockTrace(AllBlocks(request.messages), ids)

\* both spellings of the tool are declared along, the messages hold a WebSearch
\* call with its result and another call with its result
C27_Witness ==
    /\ payload # <<>>
    /\ UsesWebSearch(request)
    /\ Len(request.tools) = 2
    /\ \E i \in DOMAIN request.tools : request.tools[i].name = "Bash"
    /\ \E b \in Range(AllBlocks(request.messages)) :
            b.type = "tool_result" /\ b.tool_use_id \in WebSearchIdsOf(request.messages)
    /\ Len(ToolItemTrace(payload.input)) = 2
    /\ Len(payload.tools) = 2

\* C28: the authorization code is exchanged only when the state of the callback
\* equals the state generated for the flow; a differing or a missing state
\* ends the flow with an error and exchangeCodeForTokens is never called.
C28_ExchangeOnlyOnMatchingState ==
    /\ oauth.exchanges > 0 => oauth.params.state = oauth.state
    /\ (oauth.pc \in {"exchanging", "saved", "failed"} /\ oauth.params.code # 0
            /\ oauth.params.error = "" /\ oauth.params.state # oauth.state) =>
                (oauth.pc = "failed" /\ oauth.exchanges = 0)

(***************************************************************************)
(* Reading the pool                                                        *)
(***************************************************************************)
\* the positions of the accounts selectAccount() may return at time t
Available(accts, t) == {i \in DOMAIN accts : IsSelectable(accts[i], t)}

RECURSIVE Rounds(_, _, _, _)
\* what k consecutive selectAccount() calls return, nothing else happening
Rounds(accts, ai, t, k) ==
    IF k = 0 THEN <<>>
    ELSE LET sel == SelectAccount(accts, ai, t)
         IN  <<sel>> \o Rounds(sel.accounts, sel.activeIndex, t, k - 1)

\* how far position p lies after index ai, going round the list
Distance(p, ai, total) == (p - 1 - ai + total) % total

\* C29: selection is round-robin.  With k >= 1 available accounts and nothing
\* else changing, k consecutive selectAccount calls return k distinct
\* accounts, in cyclic list order starting at activeIndex; each call sets the
\* lastUsed of the account it returns to now and moves activeIndex just after
\* it; after every selection 0 <= activeIndex < accountCount.
C29_RoundRobin ==
    LET total == Len(accounts)
        avail == Available(accounts, now)
        k == Cardinality(avail)
        rounds == Rounds(accounts, activeIndex, now, k)
    IN  /\ \A j \in 1..k :
            /\ rounds[j].idx \in avail
            /\ Cardinality({q \in avail : Distance(q, activeIndex, total)
                                            < Distance(rounds[j].idx, activeIndex, total)}) = j - 1
            /\ rounds[j].accounts[rounds[j].idx].lastUsed = now
            /\ rounds[j].activeIndex = rounds[j].idx % total
            /\ rounds[j].activeIndex \in 0..(total - 1)
        /\ lastIdx # 0 =>
            /\ activeIndex = lastIdx % total
            /\ activeIndex \in 0..(total - 1)

\* three accounts were available and three calls in a row have returned the
\* three of them, the last one the account before activeIndex
C29_Witness ==
    /\ Len(accounts) = 3
    /\ granted = 3
    /\ calls = 3
    /\ \A i \in DOMAIN accounts : accounts[i].lastUsed = now
    /\ lastIdx # 0
    /\ activeIndex = lastIdx % 3

\* the content_block_start events of text blocks
TextStarts == {i \in BlockStarts : out[i].btype = "text"}

\* C30: in the GitHub adapter, however text and tool_calls chunks interleave, a
\* text block that is open is stopped before a tool_use block is started, and
\* when the stream has ended every content_block_start(i) has exactly one
\* content_block_stop(i), emitted after it and before message_delta.
C30_TextClosedBeforeTool ==
    /\ \A t \in ToolStarts : \A x \in TextStarts :
            x < t => \E j \in StopsOf(out[x].index) : x < j /\ j < t
    /\ phase = "done" =>
            \A i \in BlockStarts :
                /\ Cardinality(StopsOf(out[i].index)) = 1
                /\ \A j \in StopsOf(out[i].index) :
                        j > i /\ \A d \in Positions("message_delta") : j < d

\* text, then a tool call, then text again, and the stream has ended: two
\* text blocks around a tool block that was still open when the second began
C30_Witness ==
    /\ phase = "done"
    /\ Cardinality(TextStarts) = 2
    /\ \E t \in ToolStarts :
            /\ \E x \in TextStarts : x < t
            /\ \E y \in TextStarts : t < y /\ \A j \in StopsOf(out[t].index) : y < j

\* C31: the events delivered to the client of one streaming request, over all
\* its attempts, hold at most one message_start: a stream that fails after the
\* adapter yielded events is not followed by another attempt on the same stream.
C31_OneMessageStart ==
    \A r \in Requests : req[r].messageStarts <= 1

\* the generator of request r has returned or thrown
Terminated(r) == req[r].pc \in {"done", "failed"}
\* the run has used up its operations and the next step of request r would
\* select an account
OutOfBudget(r) ==
    /\ req[r].pc \in {"idle", "sleep"}
    /\ Ops(req, ticks, adds, hinted) >= Budget
    /\ SelectAccount(accounts, activeIndex,
                     IF req[r].pc = "sleep" THEN Max(now, req[r].wakeAt) ELSE now).idx # 0

\* C32: with a fixed set of concurrent requests on one pool, and every backend
\* call and sleep settling, every request terminates (returns or throws)
\* whatever the backend answers, as far as the operations of the run reach:
\* the wait branch does not keep a request asleep forever.
C32_EveryRequestTerminates ==
    <>(\A r \in Requests : Terminated(r) \/ OutOfBudget(r))
\* every request has terminated, one of them returning after it slept in the wait branch
\* (no tick: only a sleep has moved the clock)
C32_Witness ==
    /\ ticks = 0
    /\ now > StartTime
    /\ \A r \in Requests : Terminated(r)
    /\ \E r \in Requests : req[r].pc = "done" /\ req[r].answered429 # {}

\* C33: whenever selectAccount returns no account and waitMs > 0, some account
\* is selectable once waitMs has elapsed: the wait is the least remaining
\* cooldown of the accounts that are enabled and not invalid, and the cooldown
\* of a disabled or invalid account makes no request wait.
C33_WaitEndsInSelectableAccount ==
    LET sel == SelectAccount(accounts, activeIndex, now)
    IN  (sel.idx = 0 /\ sel.waitMs > 0)
            => \E i \in DOMAIN accounts : IsSelectable(accounts[i], now + sel.waitMs)

\* C34: once every pending saveToDisk has completed, the account file holds
\* the pool as it is in memory (accounts, flags, cooldowns, activeIndex),
\* whatever the order in which overlapping writes finished.
C34_FileIsCurrent ==
    (saves = <<>> /\ file.kind = "config" /\ calls > 0)
        => Content(file) = Snapshot(accounts, activeIndex)

\* C35: a fresh manager that runs initialize on the file saveToDisk writes
\* for a pool holds the same accounts in the same order, with the same id,
\* enabled, isInvalid, invalidReason, cooldownUntil and lastUsed, and the same
\* activeIndex; on a missing or unparsable file initialize leaves an empty,
\* initialized pool and does not raise.
C35_SaveLoadRoundTrip ==
    /\ LET back == Initialize(Snapshot(accounts, activeIndex))
       IN  /\ back.accounts = accounts
           /\ back.activeIndex = activeIndex
           /\ back.initialized /\ ~back.raised
    /\ \A f \in {MissingFile, UnparsableFile} :
          /\ Initialize(f).accounts = <<>>
          /\ Initialize(f).activeIndex = 0
          /\ Initialize(f).initialized /\ ~Initialize(f).raised
    /\ (saves = <<>> /\ file.kind = "config" /\ file.reads = 1 /\ calls > 0)
          => Content(file) = Snapshot(accounts, activeIndex)
\* a manager restarted on a saved file that holds an invalid account without
\* e-mail address
C35_Witness ==
    /\ file.kind = "config" /\ file.reads = 1 /\ calls > 0
    /\ \E i \in DOMAIN accounts : accounts[i].isInvalid /\ accounts[i].email = NoId

\* C36: starting from an empty pool, after any sequence of addAccount calls
\* no two accounts of the pool have the same id: an account whose id or email
\* matches an existing one updates that entry and leaves every id unique.
C36_UniqueIds ==
    \A i, j \in DOMAIN accounts : i # j => accounts[i].id # accounts[j].id

\* the tool_use ids of a message of the request
ToolUseIds(msg) == {msg.content.blocks[i].id : i \in {j \in DOMAIN msg.content.blocks :
                        msg.content.blocks[j].type = "tool_use"}}
\* a conversation in which every tool_result sits in a user message that
\* directly follows the assistant message holding its tool_use
WellFormed(messages) ==
    \A k \in DOMAIN messages :
        \A i \in DOMAIN messages[k].content.blocks :
            LET b == messages[k].content.blocks[i]
            IN  b.type = "tool_result" =>
                    /\ messages[k].role = "user"
                    /\ k > 1
                    /\ messages[k - 1].role = "assistant"
                    /\ b.tool_use_id \in ToolUseIds(messages[k - 1])

\* C37: in the payload built from a well-formed conversation, every role
\* 'tool' message follows the assistant message whose tool_calls holds its
\* tool_call_id, with only other tool messages in between: no user message
\* stands between a tool call and its result.
C37_ToolResultFollowsCall ==
    (payload # <<>> /\ WellFormed(request.messages)) =>
        \A j \in DOMAIN payload.messages :
            payload.messages[j].role = "tool" =>
                \E i \in 1..(j - 1) :
                    /\ payload.messages[i].role = "assistant"
                    /\ \E c \in DOMAIN payload.messages[i].tool_calls :
                          payload.messages[i].tool_calls[c] = payload.messages[j].tool_call_id
                    /\ \A m \in (i + 1)..(j - 1) : payload.messages[m].role = "tool"

\* the content blocks open after the first n events
RECURSIVE OpenAfter(_)
OpenAfter(n) ==
    IF n = 0 THEN 0
    ELSE OpenAfter(n - 1) + (IF out[n].type = "content_block_start" THEN 1
                             ELSE IF out[n].type = "content_block_stop" THEN -1 ELSE 0)

\* C38: in the stream the Cursor adapter emits, at most one content block is
\* open at any point, every content_block_start(i) has exactly one
\* content_block_stop(i) before message_delta, and a tool call arriving with
\* the id of a closed block opens a block with a fresh index.
C38_OneBlockOpen ==
    /\ \A n \in 0..Len(out) : OpenAfter(n) <= 1
    /\ phase = "done" =>
          \A i \in BlockStarts :
              /\ Cardinality(StopsOf(out[i].index)) = 1
              /\ \A j \in StopsOf(out[i].index) :
                    j > i /\ \A d \in Positions("message_delta") : j < d
    /\ \A i, j \in BlockStarts : i # j => out[i].index # out[j].index

\* JSON.parse of the joined argumentParts, {} when it throws
CollectedInput(parts) == IF ParsesAsObject(parts) THEN parts ELSE <<"{", "}">>
\* the tool_use blocks of the response collectCodexStreamToAnthropicResponse builds
CollectedToolUses ==
    [n \in DOMAIN collected.toolCallOrder |->
        LET tc == MapGet(collected.toolCalls, collected.toolCallOrder[n])
        IN  [id |-> tc.callId, name |-> tc.name, input |-> CollectedInput(tc.argumentParts)]]
\* its stop_reason
CollectedStopReason == IF collected.toolCallOrder # <<>> THEN "tool_use" ELSE "end_turn"

\* the tool_use content_block_start events among the first n events, in order
RECURSIVE ToolStartsUpTo(_)
ToolStartsUpTo(n) ==
    IF n = 0 THEN <<>>
    ELSE IF out[n].type = "content_block_start" /\ out[n].btype = "tool_use"
         THEN Append(ToolStartsUpTo(n - 1), n)
         ELSE ToolStartsUpTo(n - 1)
\* the tool_use blocks a client assembles from the emitted stream: the input
\* is the JSON parsed from the concatenated partial_json of the block, {}
\* when there is none
StreamedToolUses ==
    LET at == ToolStartsUpTo(Len(out))
    IN  [n \in DOMAIN at |->
            LET json == PartialJsonOf(out[at[n]].index, Len(out))
            IN  [id |-> out[at[n]].id, name |-> out[at[n]].name,
                 input |-> IF json = <<>> THEN <<"{", "}">> ELSE json]]

\* C39: for one sequence of backend events the non-streaming aggregation and
\* the streaming adapter agree on the stop_reason and on the tool_use blocks
\* (id, name, order, and the input parsed from the arguments), also when
\* function_call_arguments.done carries other arguments than the deltas or
\* a delta names an unknown item_id.
C39_AggregationMatchesStream ==
    phase = "done" =>
        /\ \A d \in Positions("message_delta") : out[d].stop = CollectedStopReason
        /\ StreamedToolUses = CollectedToolUses

\* the fields of an account that decide whether it is handed out
Flags(acc) == <<acc.enabled, acc.isInvalid, acc.invalidReason, acc.cooldownUntil>>

\* C40: a step of the retry loop changes the enabled, isInvalid, invalidReason
\* and cooldownUntil of no account but the one used for the attempt; an
\* attempt that failed with something else than 401, 403 or 429 leaves them
\* unchanged on every account, a 401/403 sets isInvalid and invalidReason of
\* the account used and nothing else, a 429 sets its cooldownUntil and
\* nothing else.
C40_OnlyTheAccountUsedIsMarked ==
    [][\A r \in Requests :
         req'[r] # req[r] =>
            LET used == req[r].account
                kind == IF req[r].pc \in {"token", "fetch", "stream"} THEN req'[r].outcome ELSE ""
            IN  /\ Len(accounts') = Len(accounts)
                /\ \A a \in DOMAIN accounts :
                      /\ (a # used \/ kind \notin {"auth", "rate"}) =>
                            Flags(accounts'[a]) = Flags(accounts[a])
                      /\ (a = used /\ kind = "auth") =>
                            Flags(accounts'[a]) = <<accounts[a].enabled, TRUE, "Unauthorized",
                                                    accounts[a].cooldownUntil>>
                      /\ (a = used /\ kind = "rate") =>
                            Flags(accounts'[a]) = <<accounts[a].enabled, accounts[a].isInvalid,
                                                    accounts[a].invalidReason,
                                                    now + req'[r].retryMs>>]_vars
\* a request has failed on its last attempt with an error that is neither
\* 401, 403 nor 429, on the account a that answered 429 earlier and was
\* selected again after the sleep; b answered 401: a holds the cooldown of
\* its 429 and is not invalid, b is invalid and has no cooldown
C40_Witness ==
    \E r \in Requests : \E a, b \in DOMAIN accounts :
        /\ req[r].pc = "failed" /\ req[r].error = "error"
        /\ req[r].outcome = "other" /\ req[r].threw
        /\ req[r].answered429 = {a} /\ req[r].answered401 = {b} /\ a # b
        /\ accounts[a].lastUsed = now /\ now > req[r].startedAt
        /\ accounts[a].enabled /\ ~accounts[a].isInvalid
        /\ accounts[a].cooldownUntil # 0 /\ accounts[a].cooldownUntil <= now
        /\ accounts[b].isInvalid /\ accounts[b].invalidReason = "Unauthorized"
        /\ accounts[b].cooldownUntil = 0

====
